---- MODULE Spec2Model ----
(***************************************************************************)
(* State-machine model of the TradeSense bot backend core:                 *)
(*   - the trade executor of services/trading/tradingEngine.ts (and the    *)
(*     simulated path of its sibling version with handleTradeCommand),     *)
(*   - the cache-aside analysis service of services/ai/aiService.ts and    *)
(*     its two sibling versions (the plain-object service and the          *)
(*     HfInference-based service),                                         *)
(*   - the result store of services/db/dbService.ts.                       *)
(* Every await of the source is a step of its own, so other requests and   *)
(* the clock may move between two steps of one request.                    *)
(***************************************************************************)
EXTENDS Integers, Sequences, FiniteSets, TLC

\* JavaScript null / undefined, for string-valued fields
NULL == "null"

\* The units of work that may run at the same time
Procs == {"p1", "p2"}

(***************************************************************************)
(* Bounds of the model                                                     *)
(***************************************************************************)
\* trade operations begun in one behaviour
MaxTradeCalls == 2
\* analysis resolutions begun in one behaviour
MaxAiCalls == 2
\* clock advances in one behaviour
MaxTicks == 2
MaxCompCalls == 2
MaxRaceCalls == 3

(***************************************************************************)
(* Trade executor: domains                                                 *)
(***************************************************************************)
Chains == {"BSC", "NEAR"}
TradeTypes == {"BUY", "SELL"}
\* tradeData.userId: 0 is falsy in `if (tradeData.userId)`
UserIds == {0, 7}
\* hashes a BSC transfer may come back with
TxHashes == {"0xaaa"}
TerminalStatuses == {"COMPLETED", "FAILED"}
\* the token and the amount executeTrade is asked to trade (amounts are in
\* hundredths of a unit: 50 is 0.5)
ExecSymbol == "ETH"
ExecAmount == 100
\* parts[3] omitted: let amount = 0.01
DefaultAmount == 1
\* the hash simulateTrade makes up from Math.random()
SimHashes == {"0xsim"}
\* wallet.wallet_address as read from the store; simulateTrade calls
\* walletAddress.substring, which throws on a missing address
WalletAddresses == {"0xWALLET", NULL}
\* the two versions of parseTradingCommand / handleTradeCommand in the
\* repository: the trading engine's, which knows BUY and SELL, and the one of
\* the integration guide, which adds AUTO
Engines == {"tradingEngine", "guide"}
\* /trade messages, already split(' ')
Messages ==
    { <<"/trade", "BTC", "BUY">>,
      <<"/trade", "btc", "sell", "0.5">>,
      <<"/trade", "BTC">>,
      <<"/trade", "BTC", "AUTO", "0.5">>,
      <<"/trade", "BTC", "BUY", "abc">>,
      <<"/trade", "BTC", "SELL", "-1">>,
      <<"/trade", "BTC", "0.5">>,
      <<"/trade", "BTC", "AUTO">>,
      <<"/trade", "BTC", "abc", "0.5">> }

VARIABLES
    trades,      \* the trades table: a sequence of rows, the id of a row is its index
    tcall,       \* per unit of work: the trade operation in progress
    tradeCalls,  \* number of trade operations begun
    engine,      \* which version of handleTradeCommand this deployment runs
    hcall,       \* the HTTP request that an api/ai handler is serving
    web,         \* the request that the telegram webhook is serving
    gradio       \* the GradioService instance and the calls of analyzeSentiment

tradeVars == <<trades, tcall, tradeCalls, engine, hcall, web, gradio>>

VARIABLES
    impl,        \* which version of the analysis service this deployment runs
    env,         \* process.env: is the provider token set, are the endpoints set
    active,      \* the units of work that issue analysis requests
    now,         \* Date.now(), in milliseconds
    ticks,       \* number of clock advances
    store,       \* the analysis tables: table name -> sequence of rows
    acall,       \* per unit of work: the analysis resolution in progress
    prev,        \* per unit of work: the resolution it completed before this one
    aiCalls,     \* number of resolutions begun
    comp         \* the getComprehensiveAnalysis call in progress

aiVars == <<impl, env, active, now, ticks, store, acall, prev, aiCalls, comp>>

vars == <<trades, tcall, tradeCalls, engine, hcall, web, gradio, impl, env, active, now, ticks, store, acall, prev, aiCalls, comp>>

(***************************************************************************)
(* dbService: trades table                                                 *)
(***************************************************************************)
\* the row an insert of recordTrade creates; status_log records, for the
\* claims, every status the row has had
TradeRow(user_id, token_symbol, blockchain, amount, trade_type, status, tx_hash, error_message) ==
    [user_id |-> user_id, token_symbol |-> token_symbol, blockchain |-> blockchain,
     amount |-> amount, trade_type |-> trade_type,
     status |-> status, tx_hash |-> tx_hash, error_message |-> error_message,
     status_log |-> <<status>>]

\* recordTrade, the insert succeeding: the new table
recordTrade(table, row) == Append(table, row)

\* a buggy update that has lost its .eq('id', tradeId) filter
updateTradeStatusAllRows(table, tradeId, status, txHash, errorMessage) ==
    [i \in 1..Len(table) |->
        [table[i] EXCEPT
            !.status = status,
            !.tx_hash = IF txHash = NULL THEN @ ELSE txHash,
            !.error_message = IF errorMessage = NULL THEN @ ELSE errorMessage,
            !.status_log = Append(@, status)]]

\* updateTradeStatus, the update succeeding: only the row with that id changes;
\* an undefined txHash / errorMessage is not sent and leaves the column alone
updateTradeStatus(table, tradeId, status, txHash, errorMessage) ==
    [i \in 1..Len(table) |->
        IF i = tradeId
        THEN [table[i] EXCEPT
                !.status = status,
                !.tx_hash = IF txHash = NULL THEN @ ELSE txHash,
                !.error_message = IF errorMessage = NULL THEN @ ELSE errorMessage,
                !.status_log = Append(@, status)]
        ELSE table[i]]

(***************************************************************************)
(* Chain adapters                                                          *)
(***************************************************************************)
\* const adapter = tradeData.blockchain === 'BSC' ? bscAdapter : nearAdapter
\* a selection that takes the BSC adapter whatever the chain
SelectAdapterAlwaysBsc(blockchain) == "bscAdapter"

SelectAdapter(blockchain) == IF blockchain = "BSC" THEN "bscAdapter" ELSE "nearAdapter"

NearPlaceholderHash == "transaction-hash-placeholder"

\* an executeTransaction that may throw on either chain
ExecuteTransactionOutcomesMayFail(adapter) ==
    {[threw |-> FALSE, hash |-> IF adapter = "bscAdapter" THEN "0xaaa"
                                ELSE "transaction-hash-placeholder"],
     [threw |-> TRUE, hash |-> NULL]}

\* what executeTransaction may do: return a hash, or throw (hash = NULL).
\* bscAdapter talks to the RPC node and rethrows whatever fails; nearAdapter
\* returns its placeholder
ExecuteTransactionOutcomes(adapter) ==
    IF adapter = "bscAdapter"
    THEN {[threw |-> FALSE, hash |-> h] : h \in TxHashes}
         \cup {[threw |-> TRUE, hash |-> NULL]}
    ELSE {[threw |-> FALSE, hash |-> NearPlaceholderHash]}

(***************************************************************************)
(* tradingEngine.executeTrade                                              *)
(***************************************************************************)
IdleTradeCall ==
    [op |-> "none", pc |-> "idle", blockchain |-> "BSC", tradeType |-> "BUY",
     userId |-> 0, tradeId |-> 0, txHash |-> NULL, error |-> NULL,
     ret |-> "none", retTxHash |-> NULL, retTradeId |-> 0,
     chainCalls |-> 0, pendingFailed |-> FALSE, statusAtChainCall |-> NULL,
     message |-> <<>>, walletAddress |-> NULL, symbol |-> NULL, amount |-> 0,
     simStatus |-> NULL, inserted |-> 0, failedInsert |-> "none",
     requested |-> NULL, signalCalls |-> 0, reply |-> "", note |-> "",
     tradesBefore |-> 0, adapter |-> NULL, tokens |-> 0, balances |-> <<>>,
     asked |-> 0, lost |-> {}, got |-> <<>>]

\* a buggy handling of a failed PENDING insert: the error is swallowed and
\* the trade goes on to the chain
PendingInsertFailedGoesOn(c) ==
    [c EXCEPT !.pendingFailed = TRUE, !.pc = "execute"]

\* recordTrade(PENDING) threw: control passes to the catch block
PendingInsertFailed(c) ==
    [c EXCEPT !.pendingFailed = TRUE, !.error = "recordTrade failed", !.pc = "catch"]

ExecuteTradeBegin(p) ==
    /\ tcall[p].pc \in {"idle", "done"}
    /\ tradeCalls < MaxTradeCalls
    /\ \E b \in Chains, t \in TradeTypes, u \in UserIds :
          tcall' = [tcall EXCEPT ![p] =
                      [IdleTradeCall EXCEPT !.op = "executeTrade", !.pc = "recordPending",
                                            !.blockchain = b, !.tradeType = t, !.userId = u]]
    /\ tradeCalls' = tradeCalls + 1
    /\ UNCHANGED trades
    /\ UNCHANGED <<engine, hcall, web, gradio>>
    /\ UNCHANGED aiVars

\* const tradeId = await dbService.recordTrade({... status: 'PENDING'})
ExecuteTradeRecordPending(p) ==
    /\ tcall[p].op = "executeTrade"
    /\ tcall[p].pc = "recordPending"
    /\ \/ /\ trades' = recordTrade(trades,
                          TradeRow(tcall[p].userId, ExecSymbol, tcall[p].blockchain,
                                   ExecAmount, tcall[p].tradeType, "PENDING", NULL, NULL))
          /\ tcall' = [tcall EXCEPT ![p].tradeId = Len(trades) + 1, ![p].pc = "execute"]
       \/ /\ tcall' = [tcall EXCEPT ![p] = PendingInsertFailed(tcall[p])]
          /\ UNCHANGED trades
    /\ UNCHANGED tradeCalls
    /\ UNCHANGED <<engine, hcall, web, gradio>>
    /\ UNCHANGED aiVars

\* const txHash = await adapter.executeTransaction({...})
ExecuteTradeChainCall(p) ==
    /\ tcall[p].op = "executeTrade"
    /\ tcall[p].pc = "execute"
    /\ \E o \in ExecuteTransactionOutcomes(SelectAdapter(tcall[p].blockchain)) :
          tcall' = [tcall EXCEPT
                      ![p].chainCalls = @ + 1,
                      ![p].adapter = SelectAdapter(tcall[p].blockchain),
                      ![p].statusAtChainCall =
                          IF tcall[p].tradeId \in 1..Len(trades)
                          THEN trades[tcall[p].tradeId].status ELSE NULL,
                      ![p].txHash = o.hash,
                      ![p].error = IF o.threw THEN "executeTransaction failed" ELSE @,
                      ![p].pc = IF o.threw THEN "catch" ELSE "update"]
    /\ UNCHANGED <<trades, tradeCalls>>
    /\ UNCHANGED <<engine, hcall, web, gradio>>
    /\ UNCHANGED aiVars

\* await dbService.updateTradeStatus(tradeId, 'COMPLETED', txHash); return {success: true, ...}
ExecuteTradeUpdateCompleted(p) ==
    /\ tcall[p].op = "executeTrade"
    /\ tcall[p].pc = "update"
    /\ \/ /\ trades' = updateTradeStatus(trades, tcall[p].tradeId, "COMPLETED",
                                         tcall[p].txHash, NULL)
          /\ tcall' = [tcall EXCEPT ![p].pc = "done", ![p].ret = "success",
                                    ![p].retTxHash = tcall[p].txHash,
                                    ![p].retTradeId = tcall[p].tradeId]
       \/ /\ tcall' = [tcall EXCEPT ![p].error = "updateTradeStatus failed",
                                    ![p].pc = "catch"]
          /\ UNCHANGED trades
    /\ UNCHANGED tradeCalls
    /\ UNCHANGED <<engine, hcall, web, gradio>>
    /\ UNCHANGED aiVars

\* a buggy catch block that lets the error of the FAILED insert replace the
\* error it caught
RethrowLatest(c, failedInsert, dbError) ==
    [c EXCEPT !.pc = "done", !.ret = "thrown", !.failedInsert = failedInsert,
              !.error = IF dbError = "" THEN @ ELSE dbError]

\* catch (dbError) { log }; throw error: the error that entered the catch
\* block goes to the caller, whatever became of the FAILED insert
RethrowOriginal(c, failedInsert, dbError) ==
    [c EXCEPT !.pc = "done", !.ret = "thrown", !.failedInsert = failedInsert]

\* catch (error): if (tradeData.userId) try { recordTrade({... status: 'FAILED',
\* error_message}) } catch (dbError) { log }; throw error
ExecuteTradeCatch(p) ==
    /\ tcall[p].op = "executeTrade"
    /\ tcall[p].pc = "catch"
    /\ \/ /\ tcall[p].userId # 0
          /\ trades' = recordTrade(trades,
                          TradeRow(tcall[p].userId, ExecSymbol, tcall[p].blockchain,
                                   ExecAmount, tcall[p].tradeType, "FAILED", NULL,
                                   tcall[p].error))
          /\ tcall' = [tcall EXCEPT ![p] = RethrowOriginal(tcall[p], "ok", "")]
       \/ /\ tcall[p].userId # 0
          /\ UNCHANGED trades
          /\ tcall' = [tcall EXCEPT ![p] =
                          RethrowOriginal(tcall[p], "failed", "recordTrade failed")]
       \/ /\ tcall[p].userId = 0
          /\ UNCHANGED trades
          /\ tcall' = [tcall EXCEPT ![p] = RethrowOriginal(tcall[p], "none", "")]
    /\ UNCHANGED tradeCalls
    /\ UNCHANGED <<engine, hcall, web, gradio>>
    /\ UNCHANGED aiVars

(***************************************************************************)
(* tradingEngine.getWalletBalances                                         *)
(***************************************************************************)
\* the contracts that the caller lists in walletData.tokens, in request order
TokenAddresses == <<"0xT1", "0xT2">>
\* how many of them the caller lists
TokenCounts == {0, 1, 2}

\* what getBalance may do: return {balance, symbol, decimals}, or throw.
\* bscAdapter asks the RPC node and rethrows; nearAdapter returns fixed
\* values. tokenAddress is NULL when the argument is left out
GetBalanceOutcomes(adapter, tokenAddress) ==
    IF adapter = "bscAdapter"
    THEN {[threw |-> FALSE, balance |-> b,
           symbol |-> IF tokenAddress = NULL THEN "BNB" ELSE "CAKE", decimals |-> 18] :
             b \in {"0", "1.5"}}
         \cup {[threw |-> TRUE, balance |-> NULL, symbol |-> NULL, decimals |-> 0]}
    ELSE {[threw |-> FALSE, balance |-> "0",
           symbol |-> IF tokenAddress = NULL THEN "NEAR" ELSE "TOKEN", decimals |-> 24]}

\* an entry of the balances array
TokenBalance(o, is_native, token_address) ==
    [symbol |-> o.symbol, balance |-> o.balance, is_native |-> is_native,
     token_address |-> token_address]

\* the adapter is selected, then the native balance is asked for
GetWalletBalancesBegin(p) ==
    /\ tcall[p].pc \in {"idle", "done"}
    /\ tradeCalls < MaxTradeCalls
    /\ \E b \in Chains, n \in TokenCounts :
          tcall' = [tcall EXCEPT ![p] =
                      [IdleTradeCall EXCEPT !.op = "getWalletBalances", !.pc = "native",
                                            !.blockchain = b, !.tokens = n,
                                            !.adapter = SelectAdapter(b)]]
    /\ tradeCalls' = tradeCalls + 1
    /\ UNCHANGED trades
    /\ UNCHANGED <<engine, hcall, web, gradio>>
    /\ UNCHANGED aiVars

\* a native lookup whose failure is logged and leaves the array empty
GetWalletBalancesNativeTolerant(p) ==
    /\ tcall[p].op = "getWalletBalances"
    /\ tcall[p].pc = "native"
    /\ \E o \in GetBalanceOutcomes(tcall[p].adapter, NULL) :
          tcall' = [tcall EXCEPT ![p] =
                      [@ EXCEPT !.balances = IF o.threw THEN @
                                             ELSE <<TokenBalance(o, TRUE, NULL)>>,
                                !.got = IF o.threw THEN @ ELSE Append(@, o),
                                !.pc = IF tcall[p].tokens > 0 THEN "token" ELSE "done",
                                !.ret = IF tcall[p].tokens > 0 THEN "none" ELSE "success"]]
    /\ UNCHANGED <<trades, tradeCalls>>
    /\ UNCHANGED <<engine, hcall, web, gradio>>
    /\ UNCHANGED aiVars

\* await adapter.getBalance(walletAddress): a throw goes to the caller
GetWalletBalancesNative(p) ==
    /\ tcall[p].op = "getWalletBalances"
    /\ tcall[p].pc = "native"
    /\ \E o \in GetBalanceOutcomes(tcall[p].adapter, NULL) :
          tcall' = [tcall EXCEPT ![p] =
                      IF o.threw
                      THEN [@ EXCEPT !.pc = "done", !.ret = "thrown",
                                     !.error = "getBalance failed"]
                      ELSE [@ EXCEPT !.balances = <<TokenBalance(o, TRUE, NULL)>>,
                                     !.got = Append(@, o),
                                     !.pc = IF tcall[p].tokens > 0 THEN "token" ELSE "done",
                                     !.ret = IF tcall[p].tokens > 0 THEN "none" ELSE "success"]]
    /\ UNCHANGED <<trades, tradeCalls>>
    /\ UNCHANGED <<engine, hcall, web, gradio>>
    /\ UNCHANGED aiVars

\* for (const token of walletData.tokens): await adapter.getBalance(
\* walletAddress, token.address) inside its own try: a throw is logged and
\* the token left out; after the last token the array is returned
GetWalletBalancesToken(p) ==
    /\ tcall[p].op = "getWalletBalances"
    /\ tcall[p].pc = "token"
    /\ LET k == tcall[p].asked + 1
       IN  \E o \in GetBalanceOutcomes(tcall[p].adapter, TokenAddresses[k]) :
             tcall' = [tcall EXCEPT ![p] =
                         [@ EXCEPT !.asked = k,
                                   !.lost = IF o.threw THEN @ \cup {TokenAddresses[k]} ELSE @,
                                   !.balances = IF o.threw THEN @
                                                ELSE Append(@, TokenBalance(o, FALSE,
                                                                            TokenAddresses[k])),
                                   !.got = IF o.threw THEN @ ELSE Append(@, o),
                                   !.pc = IF k = tcall[p].tokens THEN "done" ELSE "token",
                                   !.ret = IF k = tcall[p].tokens THEN "success" ELSE "none"]]
    /\ UNCHANGED <<trades, tradeCalls>>
    /\ UNCHANGED <<engine, hcall, web, gradio>>
    /\ UNCHANGED aiVars

(***************************************************************************)
(* parseTradingCommand                                                     *)
(***************************************************************************)
\* String.prototype.toUpperCase on the tokens of Messages
toUpperCase(s) ==
    CASE s = "btc" -> "BTC"
      [] s = "buy" -> "BUY"
      [] s = "sell" -> "SELL"
      [] s = "auto" -> "AUTO"
      [] s = "abc" -> "ABC"
      [] OTHER -> s

\* parseFloat on the tokens of Messages, in hundredths; nan stands for NaN
parseFloat(s) ==
    CASE s = "0.5" -> [nan |-> FALSE, value |-> 50]
      [] s = "-1" -> [nan |-> FALSE, value |-> -100]
      [] OTHER -> [nan |-> TRUE, value |-> 0]

\* the outcome of parseTradingCommand: ok with {symbol, direction, amount},
\* or the message of the Error it throws
parseTradingCommand(parts) ==
    IF Len(parts) < 3
    THEN [ok |-> FALSE, symbol |-> NULL, direction |-> NULL, amount |-> 0,
          error |-> "Invalid trade command. Usage: /trade [symbol] [BUY|SELL] [amount]"]
    ELSE LET symbol == toUpperCase(parts[2])
             direction == toUpperCase(parts[3])
         IN  IF direction # "BUY" /\ direction # "SELL"
             THEN [ok |-> FALSE, symbol |-> NULL, direction |-> NULL, amount |-> 0,
                   error |-> "Trade direction must be either BUY or SELL"]
             ELSE IF Len(parts) >= 4
                  THEN LET a == parseFloat(parts[4])
                       IN  IF a.nan \/ a.value <= 0
                           THEN [ok |-> FALSE, symbol |-> NULL, direction |-> NULL,
                                 amount |-> 0,
                                 error |-> "Trade amount must be a positive number"]
                           ELSE [ok |-> TRUE, symbol |-> symbol, direction |-> direction,
                                 amount |-> a.value, error |-> NULL]
                  ELSE [ok |-> TRUE, symbol |-> symbol, direction |-> direction,
                        amount |-> DefaultAmount, error |-> NULL]

\* parseTradingCommand as the integration guide rewrites it: a token that is
\* not BUY or SELL is first read as an amount, then as the word AUTO
parseTradingCommandAuto(parts) ==
    IF Len(parts) < 3
    THEN [ok |-> FALSE, symbol |-> NULL, direction |-> NULL, amount |-> 0,
          error |-> "Invalid trade command. Usage: /trade <symbol> <BUY|SELL|AUTO> [amount]"]
    ELSE LET symbol == toUpperCase(parts[2])
             directionInput == toUpperCase(parts[3])
             possibleAmount == parseFloat(parts[3])
         IN  IF directionInput = "BUY" \/ directionInput = "SELL"
             THEN IF Len(parts) >= 4
                  THEN LET a == parseFloat(parts[4])
                       IN  IF a.nan \/ a.value <= 0
                           THEN [ok |-> FALSE, symbol |-> NULL, direction |-> NULL,
                                 amount |-> 0,
                                 error |-> "Trade amount must be a positive number"]
                           ELSE [ok |-> TRUE, symbol |-> symbol, direction |-> directionInput,
                                 amount |-> a.value, error |-> NULL]
                  ELSE [ok |-> TRUE, symbol |-> symbol, direction |-> directionInput,
                        amount |-> DefaultAmount, error |-> NULL]
             ELSE IF ~possibleAmount.nan /\ possibleAmount.value > 0
                  THEN [ok |-> TRUE, symbol |-> symbol, direction |-> "AUTO",
                        amount |-> possibleAmount.value, error |-> NULL]
                  ELSE IF directionInput = "AUTO"
                       THEN IF Len(parts) < 4
                            THEN [ok |-> FALSE, symbol |-> NULL, direction |-> NULL,
                                  amount |-> 0,
                                  error |-> "Please specify an amount when using AUTO trade"]
                            ELSE LET a == parseFloat(parts[4])
                                 IN  IF a.nan \/ a.value <= 0
                                     THEN [ok |-> FALSE, symbol |-> NULL, direction |-> NULL,
                                           amount |-> 0,
                                           error |-> "Trade amount must be a positive number"]
                                     ELSE [ok |-> TRUE, symbol |-> symbol, direction |-> "AUTO",
                                           amount |-> a.value, error |-> NULL]
                       ELSE [ok |-> FALSE, symbol |-> NULL, direction |-> NULL, amount |-> 0,
                             error |-> "Trade direction must be BUY, SELL, or AUTO"]

\* a parser that falls back to the default amount when the amount given is
\* no positive number
ParseCommandLenient(e, parts) ==
    LET r == IF e = "guide" THEN parseTradingCommandAuto(parts) ELSE parseTradingCommand(parts)
    IN  IF ~r.ok /\ r.error = "Trade amount must be a positive number"
        THEN [ok |-> TRUE, symbol |-> toUpperCase(parts[2]),
              direction |-> toUpperCase(parts[3]), amount |-> DefaultAmount, error |-> NULL]
        ELSE r

\* the parser of the version the deployment runs
ParseCommand(e, parts) ==
    IF e = "guide" THEN parseTradingCommandAuto(parts) ELSE parseTradingCommand(parts)

(***************************************************************************)
(* handleTradeCommand and simulateTrade                                    *)
(***************************************************************************)
HandleTradeCommandBegin(p) ==
    /\ tcall[p].pc \in {"idle", "done"}
    /\ tradeCalls < MaxTradeCalls
    /\ \E m \in Messages, w \in WalletAddresses, b \in Chains :
          tcall' = [tcall EXCEPT ![p] =
                      [IdleTradeCall EXCEPT !.op = "handleTradeCommand", !.pc = "parse",
                                            !.message = m, !.walletAddress = w,
                                            !.blockchain = b, !.userId = 7,
                                            !.tradesBefore = Len(trades)]]
    /\ tradeCalls' = tradeCalls + 1
    /\ UNCHANGED trades
    /\ UNCHANGED <<engine, hcall, web, gradio>>
    /\ UNCHANGED aiVars

\* a handleTradeCommand without its catch: the parse error goes to the caller
ParseFailedThrows(c, r) ==
    [c EXCEPT !.pc = "done", !.ret = "thrown", !.error = r.error]

\* parseTradingCommand threw: the catch of handleTradeCommand returns
\* {success: false, message: 'Trade command error: ...'}
ParseFailed(c, r) ==
    [c EXCEPT !.pc = "done", !.ret = "failure", !.error = r.error,
              !.reply = "Trade command error"]

\* simulateTrade up to its first await: walletAddress.substring throws on a
\* missing address, its catch returns status FAILED and handleTradeCommand
\* answers {success: false, message: 'Trade failed: ...'}
SimulateTradeStart(c) ==
    IF c.walletAddress = NULL
    THEN [c EXCEPT !.pc = "done", !.ret = "failure", !.simStatus = "FAILED",
                   !.error = "simulateTrade failed", !.reply = "Trade failed"]
    ELSE [c EXCEPT !.pc = "simulate"]

\* const tradeParams = parseTradingCommand(messageText), and for a direction
\* the user gave, the call of simulateTrade
HandleTradeCommandParse(p) ==
    /\ tcall[p].op = "handleTradeCommand"
    /\ tcall[p].pc = "parse"
    /\ LET r == ParseCommand(engine, tcall[p].message)
       IN  /\ ~(r.ok /\ r.direction = "AUTO")
           /\ tcall' = [tcall EXCEPT ![p] =
                  IF ~r.ok
                  THEN ParseFailed(tcall[p], r)
                  ELSE SimulateTradeStart([tcall[p] EXCEPT
                          !.symbol = r.symbol, !.requested = r.direction,
                          !.tradeType = r.direction, !.amount = r.amount])]
    /\ UNCHANGED <<trades, tradeCalls>>
    /\ UNCHANGED <<engine, hcall, web, gradio>>
    /\ UNCHANGED aiVars

\* the success message: direction === 'BUY' ? 'bought' : 'sold'
SuccessMessage(direction) ==
    IF direction = "BUY" THEN "Successfully bought" ELSE "Successfully sold"

\* a reply that carries the note whoever chose the direction
AiNoteAlways(requested) == "(Action decided by AI)"

\* if (tradeParams.direction === 'AUTO') baseMessage += " (Action decided by AI)"
AiNote(requested) ==
    IF requested = "AUTO" THEN "(Action decided by AI)" ELSE ""

\* simulateTrade returned COMPLETED: handleTradeCommand returns
\* {success: true, message, txHash}
SimulateTradeCompleted(c, h, inserted) ==
    [c EXCEPT !.pc = "done", !.ret = "success", !.txHash = h, !.retTxHash = h,
              !.simStatus = "COMPLETED", !.inserted = inserted,
              !.reply = SuccessMessage(c.tradeType), !.note = AiNote(c.requested)]

\* a simulateTrade whose failed insert reaches its outer catch: status FAILED
SimulateTradeRecordStrict(p) ==
    /\ tcall[p].op = "handleTradeCommand"
    /\ tcall[p].pc = "simulate"
    /\ \E h \in SimHashes :
          \/ /\ trades' = recordTrade(trades,
                             TradeRow(tcall[p].userId, tcall[p].symbol, tcall[p].blockchain,
                                      tcall[p].amount, tcall[p].tradeType, "COMPLETED",
                                      h, NULL))
             /\ tcall' = [tcall EXCEPT ![p] = SimulateTradeCompleted(tcall[p], h, 1)]
          \/ /\ UNCHANGED trades
             /\ tcall' = [tcall EXCEPT ![p].pc = "done", ![p].ret = "failure",
                                       ![p].simStatus = "FAILED",
                                       ![p].error = "recordTrade failed",
                                       ![p].reply = "Trade failed"]
    /\ UNCHANGED tradeCalls
    /\ UNCHANGED <<engine, hcall, web, gradio>>
    /\ UNCHANGED aiVars

\* simulateTrade after its delays: make up a hash, try { recordTrade({...
\* status: 'COMPLETED', tx_hash}) } catch (dbError) { log }, return COMPLETED
SimulateTradeRecord(p) ==
    /\ tcall[p].op = "handleTradeCommand"
    /\ tcall[p].pc = "simulate"
    /\ \E h \in SimHashes :
          \/ /\ trades' = recordTrade(trades,
                             TradeRow(tcall[p].userId, tcall[p].symbol, tcall[p].blockchain,
                                      tcall[p].amount, tcall[p].tradeType, "COMPLETED",
                                      h, NULL))
             /\ tcall' = [tcall EXCEPT ![p] = SimulateTradeCompleted(tcall[p], h, 1)]
          \/ /\ UNCHANGED trades
             /\ tcall' = [tcall EXCEPT ![p] = SimulateTradeCompleted(tcall[p], h, 0)]
    /\ UNCHANGED tradeCalls
    /\ UNCHANGED <<engine, hcall, web, gradio>>
    /\ UNCHANGED aiVars

(***************************************************************************)
(* JSON values as the analysis code sees them                              *)
(***************************************************************************)
\* numbers are in hundredths (42 is 0.42); an array is named by its contents
Num(n) == [t |-> "number", n |-> n, s |-> ""]
Str(x) == [t |-> "string", n |-> 0, s |-> x]
Arr(x) == [t |-> "array", n |-> 0, s |-> x]
Bool(b) == [t |-> "boolean", n |-> IF b THEN 1 ELSE 0, s |-> ""]
Undefined == [t |-> "undefined", n |-> 0, s |-> ""]
Null == [t |-> "null", n |-> 0, s |-> ""]
EmptyArr == Arr("[]")

\* typeof v === 'number', Array.isArray(v)
IsNumber(v) == v.t = "number"
IsArray(v) == v.t = "array"

\* JavaScript truthiness, and v || d
Truthy(v) ==
    /\ v.t \notin {"undefined", "null"}
    /\ ~(v.t = "string" /\ v.s = "")
    /\ ~(v.t = "number" /\ v.n = 0)
    /\ ~(v.t = "boolean" /\ v.n = 0)
OrElse(v, d) == IF Truthy(v) THEN v ELSE d

\* the fields of a response object, and an object with none of them set
Fields ==
    {"score", "sources", "cached", "currentPrice", "predictedPrice", "percentageChange",
     "confidence", "signal", "strength", "reasons", "analysis"}
NoFields == [f \in Fields |-> Undefined]

\* the payload columns of the analysis tables, and a row with none of them set
Columns ==
    {"sentiment_score", "sources", "current_price", "predicted_price", "percentage_change",
     "confidence", "signal", "strength", "reasons", "analysis"}
NoColumns == [c \in Columns |-> Undefined]

(***************************************************************************)
(* Analysis service: domains                                               *)
(***************************************************************************)
\* the three versions of the analysis service in the repository: the class
\* calling its endpoints with axios, the plain object calling its endpoints
\* with axios, and the class calling the HfInference client
Impls == {"AIService", "aiServiceObject", "AIServiceHf"}
Ops == {"sentiment", "prediction", "signal"}
\* the calls the callers make: getSentimentAnalysis(tokenSymbol, timeframe,
\* forceRefresh), getPricePrediction(tokenSymbol, timeHorizon) and
\* getTradingSignal(tokenSymbol, includeAnalysis)
Request(op, tokenSymbol, timeframe, forceRefresh, includeAnalysis) ==
    [op |-> op, tokenSymbol |-> tokenSymbol, timeframe |-> timeframe,
     forceRefresh |-> forceRefresh, includeAnalysis |-> includeAnalysis]
Requests ==
    { Request("sentiment", "btc", "24h", FALSE, FALSE),
      Request("sentiment", "BTC", "24h", TRUE, FALSE),
      Request("sentiment", "BTC", "1h", FALSE, FALSE),
      Request("prediction", "BTC", "24h", FALSE, FALSE),
      Request("prediction", "btc", "1h", FALSE, FALSE),
      Request("prediction", "BTC", "24h", TRUE, FALSE),
      Request("signal", "BTC", NULL, FALSE, TRUE),
      Request("signal", "btc", NULL, FALSE, FALSE) }

\* cache durations in milliseconds
SENTIMENT_CACHE_DURATION == 3600000
PREDICTION_CACHE_DURATION == 1800000
SIGNAL_CACHE_DURATION == 900000
\* CACHE_DURATION.SENTIMENT of the plain-object service
CACHE_DURATION_SENTIMENT == 60 * 60 * 1000

\* the plain-object service consults and fills the store for sentiment only
UsesCache(i, op) == i # "aiServiceObject" \/ op = "sentiment"

CacheDuration(i, op) ==
    IF i = "aiServiceObject"
    THEN CACHE_DURATION_SENTIMENT
    ELSE CASE op = "sentiment" -> SENTIMENT_CACHE_DURATION
           [] op = "prediction" -> PREDICTION_CACHE_DURATION
           [] OTHER -> SIGNAL_CACHE_DURATION

\* a buggy freshness test that still serves a row whose age equals the duration
CacheFreshInclusive(cacheAge, duration) == cacheAge <= duration

\* if (cacheAge < ..._CACHE_DURATION)
CacheFresh(cacheAge, duration) == cacheAge < duration

\* tokenSymbol = tokenSymbol.toUpperCase(); the plain-object service uses the
\* symbol as given
NormalizeSymbol(i, sym) == IF i = "aiServiceObject" THEN sym ELSE toUpperCase(sym)

\* the configuration checks before the provider call: the endpoint (or model
\* id) of the category must be set; the HfInference client exists only when
\* the token is set
Configured(i, e) ==
    IF i = "AIServiceHf" THEN e.token /\ e.endpoints ELSE e.endpoints

(***************************************************************************)
(* dbService: analysis tables                                              *)
(***************************************************************************)
TableOf(op) ==
    CASE op = "sentiment" -> "sentiment_analysis"
      [] op = "prediction" -> "predictions"
      [] OTHER -> "trade_signals"

AnalysisRow(token_symbol, timeframe, created_at, c) ==
    [token_symbol |-> token_symbol, timeframe |-> timeframe, created_at |-> created_at,
     c |-> c]

\* a buggy store that writes over the last sentiment row when there is one
storeSentimentAnalysisInPlace(tables, data, created_at) ==
    LET row == AnalysisRow(data.token_symbol, data.timeframe, created_at,
                           [NoColumns EXCEPT !["sentiment_score"] = data.f["score"],
                                             !["sources"] = data.f["sources"]])
        table == tables.sentiment_analysis
    IN  [tables EXCEPT !.sentiment_analysis =
            IF table = <<>> THEN <<row>> ELSE [table EXCEPT ![Len(table)] = row]]

\* the insert of storeSentimentAnalysis succeeding; created_at is taken when
\* the insert is built
storeSentimentAnalysis(tables, data, created_at) ==
    [tables EXCEPT !.sentiment_analysis =
        Append(@, AnalysisRow(data.token_symbol, data.timeframe, created_at,
                              [NoColumns EXCEPT !["sentiment_score"] = data.f["score"],
                                                !["sources"] = data.f["sources"]]))]

\* a buggy insert that files every prediction under the default timeframe
storePricePredictionDefaultTimeframe(tables, data, created_at) ==
    [tables EXCEPT !.predictions =
        Append(@, AnalysisRow(data.token_symbol, "24h", created_at,
                              [NoColumns EXCEPT
                                  !["current_price"] = data.f["currentPrice"],
                                  !["predicted_price"] = data.f["predictedPrice"],
                                  !["percentage_change"] = data.f["percentageChange"],
                                  !["confidence"] = data.f["confidence"]]))]

\* the insert of storePricePrediction succeeding
storePricePrediction(tables, data, created_at) ==
    [tables EXCEPT !.predictions =
        Append(@, AnalysisRow(data.token_symbol,
                              IF data.timeframe = NULL THEN "24h" ELSE data.timeframe,
                              created_at,
                              [NoColumns EXCEPT
                                  !["current_price"] = data.f["currentPrice"],
                                  !["predicted_price"] = data.f["predictedPrice"],
                                  !["percentage_change"] = data.f["percentageChange"],
                                  !["confidence"] = data.f["confidence"]]))]

\* the insert of storeTradeSignal succeeding: analysis: data.analysis || null
storeTradeSignal(tables, data, created_at) ==
    [tables EXCEPT !.trade_signals =
        Append(@, AnalysisRow(data.token_symbol, NULL, created_at,
                              [NoColumns EXCEPT
                                  !["signal"] = data.f["signal"],
                                  !["strength"] = data.f["strength"],
                                  !["reasons"] = data.f["reasons"],
                                  !["analysis"] = OrElse(data.f["analysis"], Null)]))]

\* a buggy query that has lost its .eq('timeframe', timeframe) filter
MatchingRowsOfSymbol(table, tokenSymbol, timeframe) ==
    {i \in 1..Len(table) : table[i].token_symbol = tokenSymbol}

\* .eq('token_symbol', tokenSymbol).eq('timeframe', timeframe)
MatchingRows(table, tokenSymbol, timeframe) ==
    {i \in 1..Len(table) :
        table[i].token_symbol = tokenSymbol /\ table[i].timeframe = timeframe}

\* a buggy query ordered ascending: the oldest matching row
OldestRows(table, tokenSymbol, timeframe) ==
    LET m == MatchingRows(table, tokenSymbol, timeframe)
    IN  {i \in m : \A j \in m : table[i].created_at <= table[j].created_at}

\* .order('created_at', {ascending: false}).limit(1): the rows the query may
\* return (which one, among rows of equal created_at, is up to the store)
LatestRows(table, tokenSymbol, timeframe) ==
    LET m == MatchingRows(table, tokenSymbol, timeframe)
    IN  {i \in m : \A j \in m : table[j].created_at <= table[i].created_at}

\* getLatestSentiment / getLatestPrediction / getLatestTradeSignal, the read
\* succeeding: the candidates for data[0]; none is data[0] || null = null
getLatest(tables, op, tokenSymbol, timeframe) ==
    LatestRows(tables[TableOf(op)], tokenSymbol, IF op = "signal" THEN NULL ELSE timeframe)

(***************************************************************************)
(* Inference Provider: what a call may come back with                      *)
(***************************************************************************)
\* a response body: an object with fields f (and, for text generation, the
\* generated_text), an array of classifier labels, or null
Body(shape, labels, f, text) == [shape |-> shape, labels |-> labels, f |-> f, text |-> text]
ObjectBody(f) == Body("object", <<>>, f, "")
NullBody == Body("null", <<>>, NoFields, "")
LabelsBody(labels) == Body("array", labels, NoFields, "")
TextBody(text) == Body("object", <<>>, NoFields, text)

SentimentBody42 ==
    ObjectBody([NoFields EXCEPT !["score"] = Num(42), !["sources"] = Arr("[news]")])
PredictionBodyUp ==
    ObjectBody([NoFields EXCEPT !["currentPrice"] = Num(10000), !["predictedPrice"] = Num(11000),
                                !["percentageChange"] = Num(1000), !["confidence"] = Num(80)])
SignalBodyBuy ==
    ObjectBody([NoFields EXCEPT !["signal"] = Str("BUY"), !["strength"] = Num(80),
                                !["reasons"] = Arr("[rsi]"), !["analysis"] = Str("text")])

SentimentBodies ==
    { SentimentBody42,
      ObjectBody([NoFields EXCEPT !["score"] = Num(-10), !["sources"] = Arr("[news]")]),
      ObjectBody([NoFields EXCEPT !["score"] = Str("0.42"), !["sources"] = Arr("[news]")]),
      ObjectBody([NoFields EXCEPT !["score"] = Num(42)]),
      NullBody }

PredictionBodies ==
    { PredictionBodyUp,
      ObjectBody([NoFields EXCEPT !["currentPrice"] = Num(10000), !["predictedPrice"] = Num(11000),
                                  !["percentageChange"] = Num(1000)]),
      NullBody }

SignalBodies ==
    { SignalBodyBuy,
      ObjectBody([NoFields EXCEPT !["signal"] = Str("HOLD"), !["strength"] = Num(50),
                                  !["reasons"] = Arr("[rsi]")]),
      ObjectBody([NoFields EXCEPT !["signal"] = Str("STRONG_BUY"), !["strength"] = Num(80),
                                  !["reasons"] = Arr("[rsi]")]),
      ObjectBody([NoFields EXCEPT !["signal"] = Str("SELL"), !["strength"] = Num(70)]),
      NullBody }

\* what textClassification may resolve to: label arrays, a custom object, null
ClassificationBodies ==
    { LabelsBody(<<[label |-> "POSITIVE", score |-> 90], [label |-> "NEGATIVE", score |-> 10]>>),
      LabelsBody(<<[label |-> "NEGATIVE", score |-> 70], [label |-> "NEUTRAL", score |-> 30]>>),
      LabelsBody(<<[label |-> "LABEL_0", score |-> 55]>>),
      ObjectBody([NoFields EXCEPT !["score"] = Num(42), !["sources"] = Arr("[news]")]),
      ObjectBody([NoFields EXCEPT !["score"] = Str("0.42"), !["sources"] = Arr("[news]")]),
      NullBody }

\* generated texts of the price prediction model; GeneratedJson gives what
\* generatedText.match(/{[\s\S]*}/) and JSON.parse make of each
GeneratedTexts == {"", "json-prediction", "json-no-confidence", "prose", "{broken}"}
GenerationBodies == {TextBody(t) : t \in GeneratedTexts}

GeneratedJson(text) ==
    CASE text = "json-prediction" ->
            [parsed |-> TRUE,
             f |-> [NoFields EXCEPT !["currentPrice"] = Num(10000), !["predictedPrice"] = Num(11000),
                                    !["percentageChange"] = Num(1000), !["confidence"] = Num(80)]]
      [] text = "json-no-confidence" ->
            [parsed |-> TRUE,
             f |-> [NoFields EXCEPT !["currentPrice"] = Num(10000), !["predictedPrice"] = Num(11000),
                                    !["percentageChange"] = Num(1000)]]
      [] OTHER -> [parsed |-> FALSE, f |-> NoFields]

Bodies(i, op) ==
    IF i = "AIServiceHf"
    THEN IF op = "prediction" THEN GenerationBodies ELSE ClassificationBodies
    ELSE CASE op = "sentiment" -> SentimentBodies
           [] op = "prediction" -> PredictionBodies
           [] OTHER -> SignalBodies

\* the provider call: it times out, it fails (unreachable, or a status that
\* the client rejects), or it resolves with a status and a body
Outcome(kind, status, body) == [kind |-> kind, status |-> status, body |-> body]
\* a 2xx status other than 200 reaches the axios callers like a 200 does
Created(i, op) ==
    IF i = "AIServiceHf"
    THEN {}
    ELSE {Outcome("ok", 201, CASE op = "sentiment" -> SentimentBody42
                               [] op = "prediction" -> PredictionBodyUp
                               [] OTHER -> SignalBodyBuy)}
ProviderOutcomes(i, op) ==
    {Outcome("timeout", 0, NullBody), Outcome("error", 0, NullBody)}
        \cup {Outcome("ok", 200, b) : b \in Bodies(i, op)}
        \cup Created(i, op)

(***************************************************************************)
(* Analysis service: from the provider's response to the result            *)
(***************************************************************************)
Resolved(f) == [ok |-> TRUE, f |-> f, error |-> ""]
Rejected(error) == [ok |-> FALSE, f |-> NoFields, error |-> error]

\* --- the class calling its endpoints with axios ---
SentimentStructureValid(body) ==
    body.shape # "null" /\ IsNumber(body.f["score"]) /\ IsArray(body.f["sources"])

PredictionStructureValid(body) ==
    /\ body.shape # "null"
    /\ IsNumber(body.f["currentPrice"])
    /\ IsNumber(body.f["predictedPrice"])
    /\ IsNumber(body.f["percentageChange"])
    /\ IsNumber(body.f["confidence"])

SignalStructureValid(body) ==
    /\ body.shape # "null"
    /\ body.f["signal"] \in {Str("BUY"), Str("SELL"), Str("HOLD")}
    /\ IsNumber(body.f["strength"])
    /\ IsArray(body.f["reasons"])

SentimentResult(f) ==
    [NoFields EXCEPT !["score"] = f["score"],
                     !["sources"] = OrElse(f["sources"], EmptyArr),
                     !["cached"] = Bool(FALSE)]

PredictionResult(f) ==
    [NoFields EXCEPT !["currentPrice"] = f["currentPrice"],
                     !["predictedPrice"] = f["predictedPrice"],
                     !["percentageChange"] = f["percentageChange"],
                     !["confidence"] = f["confidence"]]

SignalResult(f, includeAnalysis) ==
    [NoFields EXCEPT !["signal"] = f["signal"],
                     !["strength"] = f["strength"],
                     !["reasons"] = OrElse(f["reasons"], EmptyArr),
                     !["analysis"] = IF includeAnalysis THEN f["analysis"] ELSE Null]

AxiosClassProcess(op, o, includeAnalysis) ==
    CASE op = "sentiment" ->
            IF SentimentStructureValid(o.body)
            THEN Resolved(SentimentResult(o.body.f))
            ELSE Rejected("Invalid response structure from sentiment model")
      [] op = "prediction" ->
            IF PredictionStructureValid(o.body)
            THEN Resolved(PredictionResult(o.body.f))
            ELSE Rejected("Invalid response structure from price prediction model")
      [] OTHER ->
            IF SignalStructureValid(o.body)
            THEN Resolved(SignalResult(o.body.f, includeAnalysis))
            ELSE Rejected("Invalid response structure from trading signal model")

\* --- the plain object calling its endpoints with axios ---
\* analysis: response.data.analysis || null, whatever includeAnalysis is;
\* reading response.data.signal of a null body throws
ObjectSignalResult(body) ==
    IF body.shape = "null"
    THEN Rejected("TypeError")
    ELSE Resolved([NoFields EXCEPT !["signal"] = body.f["signal"],
                                   !["strength"] = body.f["strength"],
                                   !["reasons"] = OrElse(body.f["reasons"], EmptyArr),
                                   !["analysis"] = OrElse(body.f["analysis"], Null)])

AxiosObjectProcess(op, o) ==
    CASE op = "sentiment" ->
            IF o.status = 200 /\ SentimentStructureValid(o.body)
            THEN Resolved(SentimentResult(o.body.f))
            ELSE Rejected("Failed to fetch sentiment analysis from external service")
      [] op = "prediction" ->
            IF o.status = 200 /\ PredictionStructureValid(o.body)
            THEN Resolved(PredictionResult(o.body.f))
            ELSE Rejected("Failed to fetch price prediction from external service")
      [] OTHER ->
            IF o.status # 200
            THEN Rejected("Signal API returned status")
            ELSE ObjectSignalResult(o.body)

\* --- the class calling the HfInference client ---
\* response.find((r) => r.label === label)?.score || 0
FindScore(labels, label) ==
    LET hits == {k \in 1..Len(labels) : labels[k].label = label}
    IN  IF hits = {} THEN 0 ELSE labels[CHOOSE k \in hits : \A m \in hits : k <= m].score

RECURSIVE SumScores(_)
SumScores(labels) ==
    IF labels = <<>> THEN 0 ELSE labels[1].score + SumScores(Tail(labels))

HfModelSources == Arr("[Hugging Face classification model]")

processSentimentResponse(body) ==
    IF body.shape = "array" /\ Len(body.labels) > 0
    THEN [NoFields EXCEPT
            !["score"] = Num(FindScore(body.labels, "POSITIVE") - FindScore(body.labels, "NEGATIVE")),
            !["sources"] = HfModelSources]
    ELSE IF body.shape = "object"
         THEN [NoFields EXCEPT
                 !["score"] = IF IsNumber(body.f["score"]) THEN body.f["score"] ELSE Num(0),
                 !["sources"] = IF IsArray(body.f["sources"]) THEN body.f["sources"] ELSE EmptyArr]
         ELSE [NoFields EXCEPT !["score"] = Num(0), !["sources"] = EmptyArr]

processPricePredictionResponse(body) ==
    IF body.text = ""
    THEN Rejected("Failed to process price prediction response")
    ELSE LET j == GeneratedJson(body.text)
         IN  IF /\ j.parsed
                /\ IsNumber(j.f["currentPrice"])
                /\ IsNumber(j.f["predictedPrice"])
                /\ IsNumber(j.f["percentageChange"])
                /\ IsNumber(j.f["confidence"])
             THEN Resolved(j.f)
             ELSE Resolved([NoFields EXCEPT !["currentPrice"] = Num(0), !["predictedPrice"] = Num(0),
                                            !["percentageChange"] = Num(0), !["confidence"] = Num(0)])

HfSignalType(labels) ==
    LET positiveScore == FindScore(labels, "POSITIVE")
        negativeScore == FindScore(labels, "NEGATIVE")
    IN  IF positiveScore > negativeScore THEN "BUY"
        ELSE IF negativeScore > positiveScore THEN "SELL" ELSE "HOLD"

\* response.reduce of a response that is no array throws
processTradingSignalResponse(body, includeAnalysis) ==
    IF body.shape # "array"
    THEN Rejected("Failed to process trading signal response")
    ELSE LET signalType == HfSignalType(body.labels)
             strength == SumScores(body.labels) \div Len(body.labels)
         IN  Resolved([NoFields EXCEPT
                 !["signal"] = Str(signalType),
                 !["strength"] = Num(strength),
                 !["reasons"] = HfModelSources,
                 !["analysis"] =
                     IF includeAnalysis
                     THEN Str("Based on the model's response, the signal is " \o signalType
                              \o ". The strength is " \o ToString(strength))
                     ELSE Null])

HfClassProcess(op, o, includeAnalysis) ==
    CASE op = "sentiment" -> Resolved(SentimentResult(processSentimentResponse(o.body)))
      [] op = "prediction" ->
            LET r == processPricePredictionResponse(o.body)
            IN  IF r.ok THEN Resolved(PredictionResult(r.f)) ELSE r
      [] OTHER ->
            LET r == processTradingSignalResponse(o.body, includeAnalysis)
            IN  IF r.ok
                THEN Resolved([r.f EXCEPT !["reasons"] = OrElse(r.f["reasons"], EmptyArr)])
                ELSE r

\* what the service makes of a response that arrived
Process(i, op, o, includeAnalysis) ==
    CASE i = "AIService" -> AxiosClassProcess(op, o, includeAnalysis)
      [] i = "aiServiceObject" -> AxiosObjectProcess(op, o)
      [] OTHER -> HfClassProcess(op, o, includeAnalysis)

(***************************************************************************)
(* Analysis service: one resolution, a step per suspension point           *)
(***************************************************************************)
\* the payload served from a stored row
CachedResult(op, row, includeAnalysis) ==
    CASE op = "sentiment" ->
            [NoFields EXCEPT !["score"] = row.c["sentiment_score"],
                             !["sources"] = row.c["sources"],
                             !["cached"] = Bool(TRUE)]
      [] op = "prediction" ->
            [NoFields EXCEPT !["currentPrice"] = row.c["current_price"],
                             !["predictedPrice"] = row.c["predicted_price"],
                             !["percentageChange"] = row.c["percentage_change"],
                             !["confidence"] = row.c["confidence"]]
      [] OTHER ->
            [NoFields EXCEPT !["signal"] = row.c["signal"],
                             !["strength"] = row.c["strength"],
                             !["reasons"] = OrElse(row.c["reasons"], EmptyArr),
                             !["analysis"] = IF includeAnalysis THEN row.c["analysis"] ELSE Null]

\* the store call made with a fresh result, the insert succeeding
StoreResult(tables, op, c) ==
    LET data == [token_symbol |-> c.tokenSymbol, timeframe |-> c.timeframe, f |-> c.result]
    IN  CASE op = "sentiment" -> storeSentimentAnalysis(tables, data, c.storeAt)
          [] op = "prediction" -> storePricePrediction(tables, data, c.storeAt)
          [] OTHER -> storeTradeSignal(tables, data, c.storeAt)

IdleAiCall ==
    [op |-> "none", pc |-> "idle", tokenSymbol |-> NULL, timeframe |-> NULL,
     forceRefresh |-> FALSE, includeAnalysis |-> FALSE,
     lookedUp |-> FALSE, seen |-> 0,
     found |-> 0, cacheAge |-> -1, fromCache |-> FALSE,
     providerCalls |-> 0, upstream |-> "none", body |-> NullBody,
     result |-> NoFields, ret |-> "none", error |-> "",
     storeAt |-> -1, storeFailed |-> FALSE, appended |-> 0]

\* the call ends by throwing / by returning its result
Throw(c, error) == [c EXCEPT !.pc = "done", !.ret = "error", !.error = error]
Return(c) == [c EXCEPT !.pc = "done", !.ret = "value"]

\* a request that is left to another resolution of the key to send
IssueRequestCoalesced(c, i, e) ==
    IF Configured(i, e)
    THEN [c EXCEPT !.pc = "respond"]
    ELSE Throw(c, "not configured")

\* the configuration check and, when it passes, the request to the provider
IssueRequest(c, i, e) ==
    IF Configured(i, e)
    THEN [c EXCEPT !.providerCalls = @ + 1, !.pc = "respond"]
    ELSE Throw(c, "not configured")

\* a buggy failure path that sends the request again
UpstreamFailedRetries(c, o) ==
    [c EXCEPT !.upstream = o.kind, !.providerCalls = @ + 1]

\* the provider call timed out or failed: the error goes to the caller
UpstreamFailed(c, o) ==
    Throw([c EXCEPT !.upstream = o.kind],
          IF o.kind = "timeout" THEN "timed out" ELSE "request failed")

\* catch (cacheError) { log } and return result
StoreFailedSwallowed(c) == Return([c EXCEPT !.storeFailed = TRUE])

\* the plain-object service awaits the store inside the try around the
\* provider call: its catch turns the store's error into an upstream one
StoreFailedInsideApiTry(c) ==
    Throw([c EXCEPT !.storeFailed = TRUE],
          "Failed to fetch sentiment analysis from external service")

\* the configurations the process may start with
Envs ==
    { [token |-> TRUE, endpoints |-> TRUE],
      [token |-> TRUE, endpoints |-> FALSE],
      [token |-> FALSE, endpoints |-> TRUE] }

EmptyTables == [sentiment_analysis |-> <<>>, predictions |-> <<>>, trade_signals |-> <<>>]

\* the store as the process finds it: empty, or with a sentiment row that an
\* earlier process left
EarlierSentimentRow ==
    AnalysisRow("BTC", "24h", 0,
                [NoColumns EXCEPT !["sentiment_score"] = Num(7), !["sources"] = Arr("[blogs]")])
InitialTables ==
    {EmptyTables, [EmptyTables EXCEPT !.sentiment_analysis = <<EarlierSentimentRow>>]}

\* what is kept of a resolution that ended, to compare the next one with
Ended(c) == [c EXCEPT !.body = NullBody, !.cacheAge = -1, !.storeAt = -1]

\* a resolution that reads the store whatever forceRefresh says
StartResolutionNeverForced(r, i, e) ==
    LET c == [IdleAiCall EXCEPT
                 !.op = r.op,
                 !.tokenSymbol = NormalizeSymbol(i, r.tokenSymbol),
                 !.timeframe = r.timeframe,
                 !.forceRefresh = r.forceRefresh,
                 !.includeAnalysis = r.includeAnalysis]
    IN  IF UsesCache(i, r.op)
        THEN [c EXCEPT !.pc = "lookup"]
        ELSE IssueRequest(c, i, e)

\* if (!forceRefresh) stands before the store read of getSentimentAnalysis
\* alone: getPricePrediction and getTradingSignal take no such argument
SkipsStore(op, forceRefresh) == op = "sentiment" /\ forceRefresh

\* getSentimentAnalysis / getPricePrediction / getTradingSignal up to the
\* first await
StartResolution(r, i, e) ==
    LET c == [IdleAiCall EXCEPT
                 !.op = r.op,
                 !.tokenSymbol = NormalizeSymbol(i, r.tokenSymbol),
                 !.timeframe = r.timeframe,
                 !.forceRefresh = r.forceRefresh,
                 !.includeAnalysis = r.includeAnalysis]
    IN  IF UsesCache(i, r.op) /\ ~SkipsStore(r.op, r.forceRefresh)
        THEN [c EXCEPT !.pc = "lookup"]
        ELSE IssueRequest(c, i, e)

\* a caller starts getSentimentAnalysis / getPricePrediction / getTradingSignal;
\* the code up to the first await runs with it
AiBegin(p) ==
    /\ p \in active
    /\ acall[p].pc \in {"idle", "done"}
    /\ aiCalls < MaxAiCalls
    /\ \E r \in Requests :
          acall' = [acall EXCEPT ![p] = StartResolution(r, impl, env)]
    /\ prev' = [prev EXCEPT ![p] = Ended(acall[p])]
    /\ aiCalls' = aiCalls + 1
    /\ UNCHANGED <<impl, env, active, now, ticks, store, comp, tradeVars>>

\* the store read comes back: no row, a fresh row (served), or a stale row
AiLookup(p) ==
    /\ p \in active
    /\ acall[p].pc = "lookup"
    /\ LET c == acall[p]
           rows == getLatest(store, c.op, c.tokenSymbol, c.timeframe)
           c0 == [c EXCEPT !.lookedUp = TRUE, !.seen = Len(store[TableOf(c.op)])]
       IN  IF rows = {}
           THEN acall' = [acall EXCEPT ![p] = IssueRequest(c0, impl, env)]
           ELSE \E k \in rows :
                   LET row == store[TableOf(c.op)][k]
                       cacheAge == now - row.created_at
                       c1 == [c0 EXCEPT !.found = k, !.cacheAge = cacheAge]
                   IN  acall' = [acall EXCEPT ![p] =
                           IF CacheFresh(cacheAge, CacheDuration(impl, c.op))
                           THEN Return([c1 EXCEPT
                                   !.fromCache = TRUE,
                                   !.result = CachedResult(c.op, row, c.includeAnalysis)])
                           ELSE IssueRequest(c1, impl, env)]
    /\ UNCHANGED <<impl, env, active, now, ticks, store, prev, aiCalls, comp, tradeVars>>

\* a store read whose failure is taken for a miss: the provider is asked
AiLookupFailsFallsBack(p) ==
    /\ p \in active
    /\ acall[p].pc = "lookup"
    /\ acall' = [acall EXCEPT ![p] = IssueRequest(acall[p], impl, env)]
    /\ UNCHANGED <<impl, env, active, now, ticks, store, prev, aiCalls, comp, tradeVars>>

\* the store read throws: the call throws
AiLookupFails(p) ==
    /\ p \in active
    /\ acall[p].pc = "lookup"
    /\ acall' = [acall EXCEPT ![p] = Throw(acall[p], "store read failed")]
    /\ UNCHANGED <<impl, env, active, now, ticks, store, prev, aiCalls, comp, tradeVars>>

\* the provider call comes back
AiRespond(p) ==
    /\ p \in active
    /\ acall[p].pc = "respond"
    /\ \E o \in ProviderOutcomes(impl, acall[p].op) :
          LET c == acall[p]
              c1 == [c EXCEPT !.upstream = "ok", !.body = o.body]
              r == Process(impl, c.op, o, c.includeAnalysis)
          IN  acall' = [acall EXCEPT ![p] =
                  IF o.kind # "ok" THEN UpstreamFailed(c, o)
                  ELSE IF ~r.ok THEN Throw(c1, r.error)
                  ELSE IF UsesCache(impl, c.op)
                       THEN [c1 EXCEPT !.result = r.f, !.storeAt = now, !.pc = "store"]
                       ELSE Return([c1 EXCEPT !.result = r.f])]
    /\ UNCHANGED <<impl, env, active, now, ticks, store, prev, aiCalls, comp, tradeVars>>

\* the insert succeeds
AiStoreOk(p) ==
    /\ p \in active
    /\ acall[p].pc = "store"
    /\ store' = StoreResult(store, acall[p].op, acall[p])
    /\ acall' = [acall EXCEPT ![p] = Return([acall[p] EXCEPT !.appended = @ + 1])]
    /\ UNCHANGED <<impl, env, active, now, ticks, prev, aiCalls, comp, tradeVars>>

\* the insert throws
AiStoreFails(p) ==
    /\ p \in active
    /\ acall[p].pc = "store"
    /\ acall' = [acall EXCEPT ![p] =
                    IF impl = "aiServiceObject"
                    THEN StoreFailedInsideApiTry(acall[p])
                    ELSE StoreFailedSwallowed(acall[p])]
    /\ UNCHANGED <<impl, env, active, now, ticks, store, prev, aiCalls, comp, tradeVars>>

\* how far one clock advance goes: a millisecond, or up to the last
\* millisecond before a stored row's cache duration runs out
TickSteps(tables, i, t) ==
    {1} \cup
    UNION { { d \in { tables[TableOf(op)][k].created_at + CacheDuration(i, op) - 1 - t :
                        k \in 1..Len(tables[TableOf(op)]) } : d > 0 } : op \in Ops }

\* time passes
Tick ==
    /\ active # {}
    /\ ticks < MaxTicks
    /\ \E d \in TickSteps(store, impl, now) : now' = now + d
    /\ ticks' = ticks + 1
    /\ UNCHANGED <<impl, env, active, store, acall, prev, aiCalls, comp, tradeVars>>

(***************************************************************************)
(* getComprehensiveAnalysis                                                *)
(***************************************************************************)
\* who runs a resolution: a unit of work calling the service directly, or
\* getComprehensiveAnalysis running the resolution of one of its three slots
Callers == Procs \cup Ops

CompSymbols == {"BTC", "btc"}

\* a slot of the combined result: an object, null, or left out
ValueSlot(f) == [kind |-> "value", f |-> f]
NullSlot == [kind |-> "null", f |-> NoFields]
UndefinedSlot == [kind |-> "undefined", f |-> NoFields]

IdleComp ==
    [pc |-> "idle", tokenSymbol |-> NULL, ret |-> "none", error |-> "",
     sentiment |-> UndefinedSlot, prediction |-> UndefinedSlot, signal |-> UndefinedSlot,
     recommendation |-> Undefined, providerCalls |-> 0, pending |-> {}]

CompThrow(c, error) == [c EXCEPT !.pc = "done", !.ret = "error", !.error = error]

\* --- the plain object: three resolutions side by side ---
\* this.getSentimentAnalysis(tokenSymbol), this.getPricePrediction(tokenSymbol),
\* this.getTradingSignal(tokenSymbol, true)
SubRequest(op, sym) ==
    CASE op = "sentiment" -> Request("sentiment", sym, "24h", FALSE, FALSE)
      [] op = "prediction" -> Request("prediction", sym, "24h", FALSE, FALSE)
      [] OTHER -> Request("signal", sym, NULL, FALSE, TRUE)

\* an advisory slot whose failure is not caught
AdvisorySlotUncaught(a) == ValueSlot(a.result)

\* .catch((err) => { warn; return null })
AdvisorySlot(a) == IF a.ret = "error" THEN NullSlot ELSE ValueSlot(a.result)

\* a recommendation that does not look at the signal
RecommendHold(signal) == Str("HOLD")

\* recommendation: signal?.signal || 'HOLD'
Recommend(signal) ==
    OrElse(IF signal.kind = "value" THEN signal.f["signal"] ELSE Undefined, Str("HOLD"))

\* Promise.all resolved: the combined result
Combine(c, subs) ==
    [c EXCEPT !.pc = "done", !.ret = "value",
              !.sentiment = ValueSlot(subs["sentiment"].result),
              !.prediction = AdvisorySlot(subs["prediction"]),
              !.signal = AdvisorySlot(subs["signal"]),
              !.recommendation = Recommend(AdvisorySlot(subs["signal"]))]

\* a failed sentiment that is answered with an empty slot
SentimentFailedTolerated(c, subs) ==
    [c EXCEPT !.pc = "done", !.ret = "value", !.sentiment = NullSlot,
              !.prediction = AdvisorySlot(subs["prediction"]),
              !.signal = AdvisorySlot(subs["signal"]),
              !.recommendation = Recommend(AdvisorySlot(subs["signal"])),
              !.pending = {s \in Ops : subs[s].pc # "done"}]

\* Promise.all rejected with the error of getSentimentAnalysis: catch, log,
\* throw error; pending keeps which resolutions had not settled by then
SentimentFailed(c, subs) ==
    [CompThrow(c, subs["sentiment"].error) EXCEPT
        !.pending = {s \in Ops : subs[s].pc # "done"}]

\* --- the two classes: one call to a dedicated model ---
CompBody(shape, labels, recommendation, sentiment, prediction, signal) ==
    [shape |-> shape, labels |-> labels, recommendation |-> recommendation,
     sentiment |-> sentiment, prediction |-> prediction, signal |-> signal]

\* response.data of the comprehensive analysis endpoint
CompObjectBodies ==
    { CompBody("object", <<>>, Str("BUY"), ValueSlot(SentimentBody42.f),
               ValueSlot(PredictionBodyUp.f), ValueSlot(SignalBodyBuy.f)),
      CompBody("object", <<>>, Str("HOLD"), ValueSlot(SentimentBody42.f),
               NullSlot, ValueSlot(SignalBodyBuy.f)),
      CompBody("object", <<>>, Str("SELL"), UndefinedSlot, UndefinedSlot, UndefinedSlot),
      CompBody("object", <<>>, Str("STRONG_BUY"), ValueSlot(SentimentBody42.f),
               ValueSlot(PredictionBodyUp.f), ValueSlot(SignalBodyBuy.f)),
      CompBody("null", <<>>, Undefined, UndefinedSlot, UndefinedSlot, UndefinedSlot) }

\* what textClassification resolves to for the comprehensive analysis model
CompLabelBodies ==
    { CompBody("array", <<[label |-> "BUY", score |-> 70], [label |-> "SELL", score |-> 20],
                          [label |-> "HOLD", score |-> 10]>>,
               Undefined, UndefinedSlot, UndefinedSlot, UndefinedSlot),
      CompBody("array", <<[label |-> "SELL", score |-> 60], [label |-> "BUY", score |-> 40]>>,
               Undefined, UndefinedSlot, UndefinedSlot, UndefinedSlot),
      CompBody("array", <<[label |-> "POSITIVE", score |-> 90]>>,
               Undefined, UndefinedSlot, UndefinedSlot, UndefinedSlot),
      CompBody("null", <<>>, Undefined, UndefinedSlot, UndefinedSlot, UndefinedSlot) }

CompOutcomes(i) ==
    {Outcome("timeout", 0, NullBody), Outcome("error", 0, NullBody)}
        \cup {Outcome("ok", 200, b) :
                 b \in IF i = "AIServiceHf" THEN CompLabelBodies ELSE CompObjectBodies}

\* the configuration check and, when it passes, the one request
SingleRequest(c, i, e) ==
    IF Configured(i, e)
    THEN [c EXCEPT !.pc = "respond", !.providerCalls = @ + 1]
    ELSE CompThrow(c, "not configured")

\* the class calling axios: only the recommendation is validated
AxiosComprehensive(c, b) ==
    IF b.shape = "null" \/ b.recommendation \notin {Str("BUY"), Str("SELL"), Str("HOLD")}
    THEN CompThrow(c, "Invalid response structure from comprehensive analysis model")
    ELSE [c EXCEPT !.pc = "done", !.ret = "value",
                   !.sentiment = b.sentiment, !.prediction = b.prediction,
                   !.signal = b.signal, !.recommendation = b.recommendation]

\* the class calling the HfInference client: fixed slots, the recommendation
\* from the label scores
processComprehensiveAnalysisResponse(c, b) ==
    LET buyScore == FindScore(b.labels, "BUY")
        sellScore == FindScore(b.labels, "SELL")
        holdScore == FindScore(b.labels, "HOLD")
        recommendationType ==
            IF b.shape = "array" /\ Len(b.labels) > 0
            THEN IF buyScore > sellScore /\ buyScore > holdScore THEN "BUY"
                 ELSE IF sellScore > buyScore /\ sellScore > holdScore THEN "SELL"
                 ELSE "HOLD"
            ELSE "HOLD"
    IN  [c EXCEPT !.pc = "done", !.ret = "value",
                  !.sentiment = ValueSlot([NoFields EXCEPT !["score"] = Num(0),
                                                           !["sources"] = EmptyArr,
                                                           !["cached"] = Bool(FALSE)]),
                  !.prediction = ValueSlot([NoFields EXCEPT !["currentPrice"] = Num(0),
                                                            !["predictedPrice"] = Num(0),
                                                            !["percentageChange"] = Num(0),
                                                            !["confidence"] = Num(0)]),
                  !.signal = ValueSlot([NoFields EXCEPT !["signal"] = Str("HOLD"),
                                                        !["strength"] = Num(0),
                                                        !["reasons"] = EmptyArr]),
                  !.recommendation = Str(recommendationType)]

\* getComprehensiveAnalysis up to its first await. A new call is taken up
\* once the resolutions of the one before have all settled
CompStart(sym) ==
    IF impl = "aiServiceObject"
    THEN /\ comp' = [IdleComp EXCEPT !.pc = "join", !.tokenSymbol = sym]
         /\ acall' = [c \in Callers |->
                         IF c \in Ops
                         THEN StartResolution(SubRequest(c, sym), impl, env)
                         ELSE acall[c]]
    ELSE /\ comp' = SingleRequest([IdleComp EXCEPT !.tokenSymbol = toUpperCase(sym)],
                                  impl, env)
         /\ acall' = acall

CompBegin ==
    /\ comp.pc \in {"idle", "done"}
    /\ \A s \in Ops : acall[s].pc \in {"idle", "done"}
    /\ aiCalls < MaxCompCalls
    /\ \E sym \in CompSymbols : CompStart(sym)
    /\ aiCalls' = aiCalls + 1
    /\ UNCHANGED <<impl, env, active, now, ticks, store, prev, tradeVars>>

\* a join that goes on as soon as the sentiment is there
CompJoinEarly ==
    /\ comp.pc = "join"
    /\ acall["sentiment"].pc = "done"
    /\ acall["sentiment"].ret = "value"
    /\ comp' = Combine(comp, acall)
    /\ UNCHANGED <<impl, env, active, now, ticks, store, acall, prev, aiCalls, tradeVars>>

\* all three promises are fulfilled
CompJoin ==
    /\ comp.pc = "join"
    /\ \A s \in Ops : acall[s].pc = "done"
    /\ acall["sentiment"].ret = "value"
    /\ comp' = Combine(comp, acall)
    /\ UNCHANGED <<impl, env, active, now, ticks, store, acall, prev, aiCalls, tradeVars>>

\* getSentimentAnalysis rejected: Promise.all rejects without waiting
CompReject ==
    /\ comp.pc = "join"
    /\ acall["sentiment"].pc = "done"
    /\ acall["sentiment"].ret = "error"
    /\ comp' = SentimentFailed(comp, acall)
    /\ UNCHANGED <<impl, env, active, now, ticks, store, acall, prev, aiCalls, tradeVars>>

\* the dedicated model's answer comes back
CompRespond ==
    /\ comp.pc = "respond"
    /\ \E o \in CompOutcomes(impl) :
          comp' = IF o.kind # "ok"
                  THEN CompThrow(comp, IF o.kind = "timeout" THEN "timed out"
                                                            ELSE "request failed")
                  ELSE IF impl = "AIServiceHf"
                       THEN processComprehensiveAnalysisResponse(comp, o.body)
                       ELSE AxiosComprehensive(comp, o.body)
    /\ UNCHANGED <<impl, env, active, now, ticks, store, acall, prev, aiCalls, tradeVars>>

(***************************************************************************)
(* handleTradeCommand of the integration guide: the AUTO direction         *)
(***************************************************************************)
\* direction === 'AUTO': await aiService.getTradingSignal(symbol)
HandleTradeCommandAskSignal(p) ==
    /\ tcall[p].op = "handleTradeCommand"
    /\ tcall[p].pc = "parse"
    /\ LET r == ParseCommand(engine, tcall[p].message)
       IN  /\ r.ok
           /\ r.direction = "AUTO"
           /\ tcall' = [tcall EXCEPT ![p].pc = "signal", ![p].symbol = r.symbol,
                                     ![p].requested = r.direction,
                                     ![p].tradeType = r.direction,
                                     ![p].amount = r.amount, ![p].signalCalls = @ + 1]
           /\ acall' = [acall EXCEPT ![p] =
                  StartResolution(Request("signal", r.symbol, NULL, FALSE, FALSE), impl, env)]
    /\ prev' = [prev EXCEPT ![p] = Ended(acall[p])]
    /\ aiCalls' = aiCalls + 1
    /\ UNCHANGED <<trades, tradeCalls, engine, hcall, web, gradio, impl, env, active, now, ticks, store, comp>>

\* a trade that goes on although the signal says HOLD
DecideDirectionTradesOnHold(c, a) ==
    IF a.ret = "error"
    THEN [c EXCEPT !.pc = "done", !.ret = "failure", !.error = a.error,
                   !.reply = "Trade command error"]
    ELSE SimulateTradeStart([c EXCEPT !.tradeType = a.result["signal"].s])

\* a direction that is left as the user gave it
DecideDirectionKeepsRequested(c, a) ==
    IF a.ret = "error"
    THEN [c EXCEPT !.pc = "done", !.ret = "failure", !.error = a.error,
                   !.reply = "Trade command error"]
    ELSE IF a.result["signal"] = Str("HOLD")
         THEN [c EXCEPT !.pc = "done", !.ret = "declined",
                        !.reply = "AI suggests to HOLD. No trade executed."]
         ELSE SimulateTradeStart(c)

\* getTradingSignal threw: the catch answers {success: false}. It said HOLD:
\* {success: false, message: 'AI suggests to HOLD ... No trade executed.'}.
\* Otherwise direction = aiSignal.signal and simulateTrade is called
DecideDirection(c, a) ==
    IF a.ret = "error"
    THEN [c EXCEPT !.pc = "done", !.ret = "failure", !.error = a.error,
                   !.reply = "Trade command error"]
    ELSE IF a.result["signal"] = Str("HOLD")
         THEN [c EXCEPT !.pc = "done", !.ret = "declined",
                        !.reply = "AI suggests to HOLD. No trade executed."]
         ELSE SimulateTradeStart([c EXCEPT !.tradeType = a.result["signal"].s])

\* getTradingSignal has settled
HandleTradeCommandSignalBack(p) ==
    /\ tcall[p].op = "handleTradeCommand"
    /\ tcall[p].pc = "signal"
    /\ acall[p].pc = "done"
    /\ tcall' = [tcall EXCEPT ![p] = DecideDirection(tcall[p], acall[p])]
    /\ UNCHANGED <<trades, tradeCalls, engine, hcall, web, gradio>>
    /\ UNCHANGED aiVars

(***************************************************************************)
(* The request handlers of pages/api/ai                                    *)
(***************************************************************************)
MaxApiCalls == 1

Methods == {"GET", "POST", "PUT"}
Routes == {"sentiment", "predict", "signal", "analyze"}
\* req.query.token || req.body?.token: absent, or the symbol as it was sent
HandlerTokens == {NULL, "btc"}

\* the other parameters that a request carries
Query(route, forceRefresh, includeAnalysis) ==
    [route |-> route, forceRefresh |-> forceRefresh, includeAnalysis |-> includeAnalysis]
Queries ==
    { Query("sentiment", FALSE, FALSE),
      Query("sentiment", TRUE, FALSE),
      Query("predict", FALSE, FALSE),
      Query("signal", FALSE, FALSE),
      Query("signal", FALSE, TRUE),
      Query("analyze", FALSE, FALSE) }

\* the unit of work whose resolution the handler awaits
ApiCaller == "p1"

NoPayload == [of |-> "none", result |-> NoFields, sentiment |-> UndefinedSlot,
              prediction |-> UndefinedSlot, signal |-> UndefinedSlot,
              recommendation |-> Undefined]

IdleHandlerCall ==
    [pc |-> "idle", route |-> "none", method |-> "none", token |-> NULL,
     status |-> 0, error |-> "", bodyToken |-> NULL, payload |-> NoPayload,
     aiCallsBefore |-> 0]

\* what the handler of each route throws at when the error has no message
FallbackMessage(route) ==
    CASE route = "sentiment" -> "Failed to get sentiment analysis"
      [] route = "predict" -> "Failed to get price prediction"
      [] route = "signal" -> "Failed to get trading signal"
      [] OTHER -> "Failed to get comprehensive analysis"

\* the service call that each route makes; timeframe and horizon are left
\* out of the request and default to '24h'
RouteRequest(q, token) ==
    CASE q.route = "sentiment" -> Request("sentiment", token, "24h", q.forceRefresh, FALSE)
      [] q.route = "predict" -> Request("prediction", token, "24h", FALSE, FALSE)
      [] OTHER -> Request("signal", token, NULL, FALSE, q.includeAnalysis)

\* res.status(code).json({ error })
Answer(h, status, error) == [h EXCEPT !.pc = "done", !.status = status, !.error = error]

\* a 500 body that carries the symbol in upper case
FailureBodyNormalized(h, error) ==
    [h EXCEPT !.pc = "done", !.status = 500,
              !.error = IF error = "" THEN FallbackMessage(h.route) ELSE error,
              !.bodyToken = toUpperCase(h.token)]

\* res.status(500).json({ error: errorMessage || '...', token })
FailureBody(h, error) ==
    [h EXCEPT !.pc = "done", !.status = 500,
              !.error = IF error = "" THEN FallbackMessage(h.route) ELSE error,
              !.bodyToken = h.token]

\* res.status(200).json(result)
SuccessBody(h, payload) == [h EXCEPT !.pc = "done", !.status = 200, !.payload = payload]

\* the handler is free to take a request, and the service is at rest
HandlerFree ==
    /\ hcall.pc \in {"idle", "done"}
    /\ comp.pc \in {"idle", "done"}
    /\ \A c \in Ops \cup {ApiCaller} : acall[c].pc \in {"idle", "done"}

NewRequest(q, m, t) ==
    [IdleHandlerCall EXCEPT !.route = q.route, !.method = m, !.token = t,
                            !.aiCallsBefore = aiCalls]

\* the method is refused, or the token is missing: the handler returns
\* before it calls the service
HandlerRefuse ==
    /\ HandlerFree
    /\ \E q \in Queries, m \in Methods, t \in HandlerTokens :
          /\ m \notin {"GET", "POST"} \/ t = NULL
          /\ hcall' = IF m \notin {"GET", "POST"}
                       THEN Answer(NewRequest(q, m, t), 405, "Method not allowed")
                       ELSE Answer(NewRequest(q, m, t), 400, "Token symbol is required")
    /\ UNCHANGED <<trades, tcall, tradeCalls, engine, web, gradio>>
    /\ UNCHANGED aiVars

\* sentiment, predict, signal: await the one resolution
HandlerCallService ==
    /\ HandlerFree
    /\ aiCalls < MaxApiCalls
    /\ \E q \in Queries, m \in {"GET", "POST"}, t \in HandlerTokens \ {NULL} :
          /\ q.route # "analyze"
          /\ hcall' = [NewRequest(q, m, t) EXCEPT !.pc = "await"]
          /\ acall' = [acall EXCEPT ![ApiCaller] =
                          StartResolution(RouteRequest(q, t), impl, env)]
    /\ prev' = [prev EXCEPT ![ApiCaller] = Ended(acall[ApiCaller])]
    /\ aiCalls' = aiCalls + 1
    /\ UNCHANGED <<trades, tcall, tradeCalls, engine, web, gradio, impl, env, active, now, ticks, store, comp>>

\* analyze: await aiService.getComprehensiveAnalysis(token)
HandlerCallComprehensive ==
    /\ HandlerFree
    /\ aiCalls < MaxApiCalls
    /\ \E q \in Queries, m \in {"GET", "POST"}, t \in HandlerTokens \ {NULL} :
          /\ q.route = "analyze"
          /\ hcall' = [NewRequest(q, m, t) EXCEPT !.pc = "await"]
          /\ CompStart(t)
    /\ aiCalls' = aiCalls + 1
    /\ UNCHANGED <<trades, tcall, tradeCalls, engine, web, gradio, impl, env, active, now, ticks, store, prev>>

\* the awaited call has settled: 200 with the result, or the catch block
HandlerSettle ==
    /\ hcall.pc = "await"
    /\ IF hcall.route = "analyze"
       THEN /\ comp.pc = "done"
            /\ hcall' = IF comp.ret = "error"
                         THEN FailureBody(hcall, comp.error)
                         ELSE SuccessBody(hcall,
                                [NoPayload EXCEPT !.of = "analyze",
                                                  !.sentiment = comp.sentiment,
                                                  !.prediction = comp.prediction,
                                                  !.signal = comp.signal,
                                                  !.recommendation = comp.recommendation])
       ELSE /\ acall[ApiCaller].pc = "done"
            /\ hcall' = IF acall[ApiCaller].ret = "error"
                         THEN FailureBody(hcall, acall[ApiCaller].error)
                         ELSE SuccessBody(hcall,
                                [NoPayload EXCEPT !.of = hcall.route,
                                                  !.result = acall[ApiCaller].result])
    /\ UNCHANGED <<trades, tcall, tradeCalls, engine, web, gradio>>
    /\ UNCHANGED aiVars

(***************************************************************************)
(* The telegram webhook                                                    *)
(***************************************************************************)
MaxWebhookRequests == 2

\* process.env.TELEGRAM_WEBHOOK_SECRET: not set, set to nothing, set
Secrets == {NULL, "", "s3cret"}
\* req.headers['x-telegram-bot-api-secret-token']
Headers == {NULL, "", "s3cret", "wrong"}
\* the Next.js route and the express middleware chain
Entries == {"next", "express"}

IdleWebhook ==
    [secret |-> NULL, pc |-> "idle", entry |-> "none", method |-> "none", header |-> NULL,
     status |-> 0, handled |-> FALSE, requests |-> 0, dispatches |-> 0]

\* a verification that lets every request through when no secret is set
verifyWebhookRequestOpen(token, secretToken) ==
    IF secretToken \in {NULL, ""} THEN TRUE ELSE token = secretToken

\* if (!secretToken) return false; return token === secretToken
verifyWebhookRequest(token, secretToken) ==
    IF secretToken \in {NULL, ""} THEN FALSE ELSE token = secretToken

\* a request reaches the endpoint
WebhookReceive ==
    /\ web.pc \in {"idle", "done"}
    /\ web.requests < MaxWebhookRequests
    /\ \E e \in Entries, m \in {"GET", "POST"}, h \in Headers :
          web' = [web EXCEPT !.pc = "gate", !.entry = e, !.method = m, !.header = h,
                             !.status = 0, !.handled = FALSE, !.requests = @ + 1]
    /\ UNCHANGED <<trades, tcall, tradeCalls, engine, hcall, gradio>>
    /\ UNCHANGED aiVars

\* the handler of the route: 405 unless POST, 401 unless verified; the
\* express middleware: 403 without a secret or with another token, else next()
WebhookGate ==
    /\ web.pc = "gate"
    /\ web' = IF web.entry = "next"
              THEN IF web.method # "POST"
                   THEN [web EXCEPT !.pc = "done", !.status = 405]
                   ELSE IF ~verifyWebhookRequest(web.header, web.secret)
                        THEN [web EXCEPT !.pc = "done", !.status = 401]
                        ELSE [web EXCEPT !.pc = "dispatch"]
              ELSE IF web.secret \in {NULL, ""}
                   THEN [web EXCEPT !.pc = "done", !.status = 403]
                   ELSE IF web.header # web.secret
                        THEN [web EXCEPT !.pc = "done", !.status = 403]
                        ELSE [web EXCEPT !.pc = "dispatch"]
    /\ UNCHANGED <<trades, tcall, tradeCalls, engine, hcall, gradio>>
    /\ UNCHANGED aiVars

\* await telegramService.handleUpdate(req, res) / webhookCallback(bot): the
\* update goes to the bot, which answers, or leaves the answer to the
\* handler, or throws
WebhookDispatch ==
    /\ web.pc = "dispatch"
    /\ \E o \in {"answered", "silent", "threw"} :
          web' = [web EXCEPT !.pc = "done", !.handled = TRUE, !.dispatches = @ + 1,
                             !.status = IF o = "threw" THEN 500 ELSE 200]
    /\ UNCHANGED <<trades, tcall, tradeCalls, engine, hcall, gradio>>
    /\ UNCHANGED aiVars

(***************************************************************************)
(* GradioService: the lazy initialisation of the client                    *)
(***************************************************************************)
MaxGradioCalls == 3

IdleGradioCall ==
    [pc |-> "idle", ret |-> "none", connectId |-> 0, connected |-> FALSE, client |-> 0]

\* the instance after its constructor: no client, not initialised
NewGradioService ==
    [clientsInitialized |-> FALSE, cryptoBertClient |-> 0, connects |-> 0, calls |-> 0,
     call |-> [p \in Procs |-> IdleGradioCall]]

\* an initialisation that waits for a connect already under way
GradioBeginShared(p) ==
    /\ gradio.call[p].pc \in {"idle", "done"}
    /\ gradio.calls < MaxGradioCalls
    /\ gradio' = IF gradio.clientsInitialized
                 THEN [gradio EXCEPT !.calls = @ + 1,
                                     !.call[p] = [IdleGradioCall EXCEPT !.pc = "predict"]]
                 ELSE [gradio EXCEPT !.calls = @ + 1,
                                     !.connects = IF \E q \in Procs : gradio.call[q].pc = "connect"
                                                  THEN @ ELSE @ + 1,
                                     !.call[p] = [IdleGradioCall EXCEPT !.pc = "connect",
                                                    !.connectId = gradio.connects + 1]]
    /\ UNCHANGED <<trades, tcall, tradeCalls, engine, hcall, web>>
    /\ UNCHANGED aiVars

\* analyzeSentiment up to the first await of ensureClientsInitialized: with
\* the flag set it goes on at once, else it calls Client.connect
GradioBegin(p) ==
    /\ gradio.call[p].pc \in {"idle", "done"}
    /\ gradio.calls < MaxGradioCalls
    /\ gradio' = IF gradio.clientsInitialized
                 THEN [gradio EXCEPT !.calls = @ + 1,
                                     !.call[p] = [IdleGradioCall EXCEPT !.pc = "predict"]]
                 ELSE [gradio EXCEPT !.calls = @ + 1,
                                     !.connects = @ + 1,
                                     !.call[p] = [IdleGradioCall EXCEPT !.pc = "connect",
                                                    !.connectId = gradio.connects + 1]]
    /\ UNCHANGED <<trades, tcall, tradeCalls, engine, hcall, web>>
    /\ UNCHANGED aiVars

\* Client.connect settles: the client and then the flag are set, or the
\* catch throws and leaves both as they are
GradioConnected(p) ==
    /\ gradio.call[p].pc = "connect"
    /\ \/ gradio' = [gradio EXCEPT !.cryptoBertClient = gradio.call[p].connectId,
                                    !.clientsInitialized = TRUE,
                                    !.call[p].connected = TRUE,
                                    !.call[p].pc = "predict"]
       \/ gradio' = [gradio EXCEPT !.call[p].pc = "done", !.call[p].ret = "error"]
    /\ UNCHANGED <<trades, tcall, tradeCalls, engine, hcall, web>>
    /\ UNCHANGED aiVars

\* this.cryptoBertClient.predict('/predict', ...) on the client that the
\* instance holds by now, then the result or the error
GradioPredict(p) ==
    /\ gradio.call[p].pc = "predict"
    /\ \E r \in {"value", "error"} :
          gradio' = [gradio EXCEPT !.call[p].pc = "done", !.call[p].ret = r,
                                   !.call[p].client = gradio.cryptoBertClient]
    /\ UNCHANGED <<trades, tcall, tradeCalls, engine, hcall, web>>
    /\ UNCHANGED aiVars

\* no trade is in progress / no analysis is in progress
TradeIdle ==
    /\ engine = "tradingEngine"
    /\ hcall = IdleHandlerCall
    /\ web = IdleWebhook
    /\ gradio = NewGradioService
    /\ trades = <<>>
    /\ tcall = [p \in Procs |-> IdleTradeCall]
    /\ tradeCalls = 0

AiIdle ==
    /\ now = 0
    /\ ticks = 0
    /\ acall = [c \in Callers |-> IdleAiCall]
    /\ prev = [c \in Callers |-> IdleAiCall]
    /\ aiCalls = 0
    /\ comp = IdleComp

AiInit ==
    /\ impl \in Impls
    /\ env \in Envs
    /\ active = {"p1"}
    /\ store \in InitialTables
    /\ AiIdle
    /\ TradeIdle

AiNext ==
    \/ \E p \in Procs :
          \/ AiBegin(p)
          \/ AiLookup(p)
          \/ AiLookupFails(p)
          \/ AiRespond(p)
          \/ AiStoreOk(p)
          \/ AiStoreFails(p)
    \/ Tick

SpecAI == AiInit /\ [][AiNext]_vars

TradeInit ==
    /\ TradeIdle
    /\ impl = "AIService"
    /\ env = [token |-> TRUE, endpoints |-> TRUE]
    /\ active = {}
    /\ store = EmptyTables
    /\ AiIdle

TradeNext ==
    \E p \in Procs :
        \/ ExecuteTradeBegin(p)
        \/ ExecuteTradeRecordPending(p)
        \/ ExecuteTradeChainCall(p)
        \/ ExecuteTradeUpdateCompleted(p)
        \/ ExecuteTradeCatch(p)
        \/ HandleTradeCommandBegin(p)
        \/ HandleTradeCommandParse(p)
        \/ SimulateTradeRecord(p)

SpecTrade == TradeInit /\ [][TradeNext]_vars

\* executeTrade and getWalletBalances calls side by side
WalletNext ==
    \E p \in Procs :
        \/ ExecuteTradeBegin(p)
        \/ ExecuteTradeRecordPending(p)
        \/ ExecuteTradeChainCall(p)
        \/ ExecuteTradeUpdateCompleted(p)
        \/ ExecuteTradeCatch(p)
        \/ GetWalletBalancesBegin(p)
        \/ GetWalletBalancesNative(p)
        \/ GetWalletBalancesToken(p)

SpecWallet == TradeInit /\ [][WalletNext]_vars

\* /trade messages handled by either version of handleTradeCommand, with the
\* analysis service behind the AUTO direction
AutoInit ==
    /\ engine \in Engines
    /\ hcall = IdleHandlerCall
    /\ web = IdleWebhook
    /\ gradio = NewGradioService
    /\ trades = <<>>
    /\ tcall = [p \in Procs |-> IdleTradeCall]
    /\ tradeCalls = 0
    /\ impl \in Impls
    /\ env \in Envs
    /\ active = {"p1"}
    /\ store = EmptyTables
    /\ AiIdle

AutoNext ==
    \E p \in active :
        \/ HandleTradeCommandBegin(p)
        \/ HandleTradeCommandParse(p)
        \/ HandleTradeCommandAskSignal(p)
        \/ AiLookup(p)
        \/ AiLookupFails(p)
        \/ AiRespond(p)
        \/ AiStoreOk(p)
        \/ AiStoreFails(p)
        \/ HandleTradeCommandSignalBack(p)
        \/ SimulateTradeRecord(p)

SpecAuto == AutoInit /\ [][AutoNext]_vars

\* getComprehensiveAnalysis requests handled by each version of the service
CompInit ==
    /\ impl \in Impls
    /\ env \in Envs
    /\ active = Ops
    /\ store \in InitialTables
    /\ AiIdle
    /\ TradeIdle

CompNext ==
    \/ CompBegin
    \/ CompJoin
    \/ CompReject
    \/ CompRespond
    \/ \E s \in Ops :
          \/ AiLookup(s)
          \/ AiLookupFails(s)
          \/ AiRespond(s)
          \/ AiStoreOk(s)
          \/ AiStoreFails(s)

SpecComp == CompInit /\ [][CompNext]_vars

\* requests served one after the other by the handlers of pages/api/ai
ApiInit ==
    /\ impl \in Impls
    /\ env \in Envs
    /\ active = Ops \cup {ApiCaller}
    /\ store = EmptyTables
    /\ AiIdle
    /\ TradeIdle

ApiNext ==
    \/ HandlerRefuse
    \/ HandlerCallService
    \/ HandlerCallComprehensive
    \/ HandlerSettle
    \/ CompJoin
    \/ CompReject
    \/ CompRespond
    \/ \E c \in Ops \cup {ApiCaller} :
          \/ AiLookup(c)
          \/ AiLookupFails(c)
          \/ AiRespond(c)
          \/ AiStoreOk(c)
          \/ AiStoreFails(c)

SpecApi == ApiInit /\ [][ApiNext]_vars

\* requests reaching the telegram webhook under each setting of the secret
WebhookInit ==
    /\ engine = "tradingEngine"
    /\ hcall = IdleHandlerCall
    /\ \E s \in Secrets : web = [IdleWebhook EXCEPT !.secret = s]
    /\ gradio = NewGradioService
    /\ trades = <<>>
    /\ tcall = [p \in Procs |-> IdleTradeCall]
    /\ tradeCalls = 0
    /\ impl = "AIService"
    /\ env = [token |-> TRUE, endpoints |-> TRUE]
    /\ active = {}
    /\ store = EmptyTables
    /\ AiIdle

WebhookNext ==
    \/ WebhookReceive
    \/ WebhookGate
    \/ WebhookDispatch

SpecWebhook == WebhookInit /\ [][WebhookNext]_vars

\* calls of analyzeSentiment side by side on one GradioService
GradioInit ==
    /\ impl = "AIService"
    /\ env = [token |-> TRUE, endpoints |-> TRUE]
    /\ active = {}
    /\ store = EmptyTables
    /\ AiIdle
    /\ TradeIdle

GradioNext ==
    \E p \in Procs :
        \/ GradioBegin(p)
        \/ GradioConnected(p)
        \/ GradioPredict(p)

SpecGradio == GradioInit /\ [][GradioNext]_vars

\* two units of work asking for the same analysis side by side
RaceRequests ==
    { Request("sentiment", "BTC", "24h", FALSE, FALSE),
      Request("sentiment", "btc", "24h", FALSE, FALSE) }

RaceBegin(p) ==
    /\ p \in active
    /\ acall[p].pc \in {"idle", "done"}
    /\ aiCalls < MaxRaceCalls
    /\ \E r \in RaceRequests :
          acall' = [acall EXCEPT ![p] = StartResolution(r, impl, env)]
    /\ prev' = [prev EXCEPT ![p] = Ended(acall[p])]
    /\ aiCalls' = aiCalls + 1
    /\ UNCHANGED <<impl, env, active, now, ticks, store, comp, tradeVars>>

RaceInit ==
    /\ impl \in Impls
    /\ env = [token |-> TRUE, endpoints |-> TRUE]
    /\ active = Procs
    /\ store = EmptyTables
    /\ AiIdle
    /\ TradeIdle

RaceNext ==
    \/ \E p \in Procs :
          \/ RaceBegin(p)
          \/ AiLookup(p)
          \/ AiLookupFails(p)
          \/ AiRespond(p)
          \/ AiStoreOk(p)
          \/ AiStoreFails(p)
    \/ Tick

SpecRace == RaceInit /\ [][RaceNext]_vars

(***************************************************************************)
(* Claims about the trade executor                                         *)
(***************************************************************************)
\* an executeTrade call of p has ended (returned or thrown)
ExecuteTradeEnded(p) == tcall[p].op = "executeTrade" /\ tcall[p].pc = "done"

\* C7: after executeTrade returns or throws, the row it created in PENDING has
\* changed status exactly once, to COMPLETED with tx_hash set or to FAILED with
\* error_message set, and is never left in PENDING.
C7_PendingRowResolvedOnce ==
    \A p \in Procs :
        (ExecuteTradeEnded(p) /\ tcall[p].tradeId # 0) =>
            LET row == trades[tcall[p].tradeId]
            IN  /\ Len(row.status_log) = 2
                /\ \/ row.status = "COMPLETED" /\ row.tx_hash # NULL
                   \/ row.status = "FAILED" /\ row.error_message # NULL

\* C8: whenever executeTrade has invoked executeTransaction, its own row
\* existed in status PENDING at the moment of the call; and when the insert of
\* the PENDING row failed, executeTransaction has not been invoked.
C8_PendingBeforeChainCall ==
    \A p \in Procs :
        tcall[p].op = "executeTrade" =>
            /\ tcall[p].chainCalls > 0 =>
                  /\ tcall[p].tradeId \in 1..Len(trades)
                  /\ tcall[p].statusAtChainCall = "PENDING"
                  /\ ~tcall[p].pendingFailed
            /\ tcall[p].pendingFailed => tcall[p].chainCalls = 0

\* C8 witness: one executeTrade has reached the chain, and one has ended after
\* its PENDING insert failed
C8_Witness ==
    /\ \E p \in Procs : tcall[p].op = "executeTrade" /\ tcall[p].chainCalls > 0
    /\ \E p \in Procs : ExecuteTradeEnded(p) /\ tcall[p].pendingFailed

\* C9: no step of executeTrade, simulateTrade or handleTradeCommand changes the
\* status of a row that is COMPLETED or FAILED (nor removes the row).
C9_TerminalAbsorbing ==
    [][\A i \in 1..Len(trades) :
          trades[i].status \in TerminalStatuses =>
              /\ i <= Len(trades')
              /\ trades'[i].status = trades[i].status]_vars

\* C9 witness: a row that was terminal from its creation, and a younger row
\* that has since been moved out of PENDING
C9_Witness ==
    \E i, j \in 1..Len(trades) :
        /\ i < j
        /\ trades[i].status \in TerminalStatuses
        /\ Len(trades[i].status_log) = 1
        /\ Len(trades[j].status_log) = 2

\* C10: whenever executeTransaction returned a reference, executeTrade returns
\* success with that reference and its row ends COMPLETED carrying it.
C10_ReferenceMeansCompleted ==
    \A p \in Procs :
        (ExecuteTradeEnded(p) /\ tcall[p].txHash # NULL) =>
            /\ tcall[p].ret = "success"
            /\ tcall[p].retTxHash = tcall[p].txHash
            /\ trades[tcall[p].tradeId].status = "COMPLETED"
            /\ trades[tcall[p].tradeId].tx_hash = tcall[p].txHash

(***************************************************************************)
(* Properties of the analysis service                                      *)
(***************************************************************************)
AiEnded(p) == acall[p].pc = "done"

\* the time to live of a category's records
Ttl(op) ==
    CASE op = "sentiment" -> 3600000
      [] op = "prediction" -> 1800000
      [] OTHER -> 900000

\* the rows of the call's key among the rows the call's read could see
KeyRows(c) ==
    {k \in 1..c.seen :
        /\ store[TableOf(c.op)][k].token_symbol = c.tokenSymbol
        /\ store[TableOf(c.op)][k].timeframe = c.timeframe}

\* the latest stored records of the call's key
KeyLatest(c) ==
    {k \in KeyRows(c) :
        \A j \in KeyRows(c) :
            store[TableOf(c.op)][j].created_at <= store[TableOf(c.op)][k].created_at}

\* the instant of the call's freshness test, known once it found a row
CheckedAt(c) == store[TableOf(c.op)][c.found].created_at + c.cacheAge

\* the payload of a stored record as a resolution reports it; the analysis
\* text of a signal is reported only to a caller that asked for it
PayloadOfRecord(op, row, includeAnalysis) ==
    CASE op = "sentiment" ->
            <<row.c["sentiment_score"], row.c["sources"]>>
      [] op = "prediction" ->
            <<row.c["current_price"], row.c["predicted_price"], row.c["percentage_change"],
              row.c["confidence"]>>
      [] OTHER ->
            <<row.c["signal"], row.c["strength"], row.c["reasons"],
              IF includeAnalysis THEN row.c["analysis"] ELSE Null>>

\* the payload a resolution returned
PayloadOfResult(op, f) ==
    CASE op = "sentiment" -> <<f["score"], f["sources"]>>
      [] op = "prediction" ->
            <<f["currentPrice"], f["predictedPrice"], f["percentageChange"], f["confidence"]>>
      [] OTHER -> <<f["signal"], f["strength"], f["reasons"], f["analysis"]>>

\* C1: a resolution without forceRefresh whose read succeeded, and for whose
\* key the latest stored record is younger than the category's time to live
\* when the freshness is tested, returns that record's payload (for sentiment
\* with cached = true), calls the provider not once and appends no record.
C1_CacheHitServesLatestRecord ==
    \A p \in Procs :
        LET c == acall[p]
            table == store[TableOf(c.op)]
        IN  (/\ c.lookedUp
             /\ ~c.forceRefresh
             /\ c.found # 0
             /\ \E k \in KeyLatest(c) : CheckedAt(c) - table[k].created_at < Ttl(c.op))
            => /\ AiEnded(p)
               /\ c.ret = "value"
               /\ c.found \in KeyLatest(c)
               /\ PayloadOfResult(c.op, c.result)
                     = PayloadOfRecord(c.op, table[c.found], c.includeAnalysis)
               /\ (c.op = "sentiment" => c.result["cached"] = Bool(TRUE))
               /\ c.providerCalls = 0
               /\ c.appended = 0
               /\ Len(table) = c.seen

\* a hit on the later of two records of one key
C1_Witness ==
    \E p \in Procs :
        /\ AiEnded(p)
        /\ acall[p].fromCache
        /\ acall[p].found = 2
        /\ KeyRows(acall[p]) = {1, 2}

SameRequest(a, b) ==
    /\ a.op = b.op
    /\ a.tokenSymbol = b.tokenSymbol
    /\ a.timeframe = b.timeframe
    /\ a.forceRefresh = b.forceRefresh
    /\ a.includeAnalysis = b.includeAnalysis

\* two resolutions of one key issued back-to-back within the category's time
\* to live: the first found no fresh record and came back with a payload, the
\* second consulted the store, and all of it happened before one time to live
\* had passed
BackToBack(p) ==
    /\ prev[p].pc = "done"
    /\ AiEnded(p)
    /\ SameRequest(prev[p], acall[p])
    /\ ~acall[p].forceRefresh
    /\ prev[p].lookedUp
    /\ ~prev[p].fromCache
    /\ prev[p].ret = "value"
    /\ acall[p].lookedUp
    /\ now < Ttl(acall[p].op)

\* the payload with an absent or empty analysis text read as null
PayloadAnalysisOrNull(op, f) ==
    PayloadOfResult(op, [f EXCEPT !["analysis"] = OrElse(@, Null)])

C4_StoreFailureSwallowed ==
    \A p \in Procs :
        (AiEnded(p) /\ acall[p].storeFailed)
        => /\ acall[p].ret = "value"
           /\ acall[p].error = ""
           /\ ~acall[p].fromCache
           /\ acall[p].providerCalls = 1
           /\ acall[p].appended = 0
           /\ acall[p].op = "sentiment" => acall[p].result["cached"] = Bool(FALSE)

\* what the provider sent as the payload: the fields of the body, or of the
\* JSON in the text it generated
ProviderPayload(body) ==
    IF body.text # "" THEN GeneratedJson(body.text).f ELSE body.f

\* the shape a category requires of the provider's payload
RequiredShape(op, f) ==
    CASE op = "sentiment" -> IsNumber(f["score"]) /\ IsArray(f["sources"])
      [] op = "prediction" ->
            /\ IsNumber(f["currentPrice"])
            /\ IsNumber(f["predictedPrice"])
            /\ IsNumber(f["percentageChange"])
            /\ IsNumber(f["confidence"])
      [] OTHER ->
            /\ f["signal"] \in {Str("BUY"), Str("SELL"), Str("HOLD")}
            /\ IsNumber(f["strength"])
            /\ IsArray(f["reasons"])

\* the provider answered with a payload object (or none at all) that lacks
\* the required shape; an array of classifier labels is no payload object
ShapeViolated(c) ==
    /\ c.upstream = "ok"
    /\ c.body.shape # "array"
    /\ ~RequiredShape(c.op, ProviderPayload(c.body))

\* C5: when the provider's response violates the required shape of the
\* category, the resolution fails with an error, returns no payload and
\* appends no record.
C5_ShapeViolationFails ==
    \A p \in Procs :
        ShapeViolated(acall[p])
        => /\ AiEnded(p)
           /\ acall[p].ret = "error"
           /\ acall[p].result = NoFields
           /\ acall[p].appended = 0

\* C6: within one resolution the provider is called at most once; when the
\* call times out or fails, the resolution ends with an error delivered to
\* the caller and appends no record.
C6_NoRetry ==
    \A p \in Procs :
        /\ acall[p].providerCalls <= 1
        /\ acall[p].upstream \in {"timeout", "error"} =>
              /\ AiEnded(p)
              /\ acall[p].ret = "error"
              /\ acall[p].error # ""
              /\ acall[p].providerCalls = 1
              /\ acall[p].appended = 0

\* a resolution that ended on a provider failure, and the next on a timeout
C6_Witness ==
    \E p \in Procs :
        /\ AiEnded(p)
        /\ acall[p].upstream = "timeout"
        /\ acall[p].ret = "error"
        /\ prev[p].upstream = "error"
        /\ prev[p].ret = "error"

(***************************************************************************)
(* Properties of the trade executor, continued                             *)
(***************************************************************************)
\* executeTrade ended after its executeTransaction threw
ChainCallThrew(p) ==
    /\ ExecuteTradeEnded(p)
    /\ tcall[p].chainCalls = 1
    /\ tcall[p].txHash = NULL

\* the FAILED row of the call is in the table with the error it caught
FailedRowRecorded(p) ==
    \E i \in 1..Len(trades) :
        /\ i # tcall[p].tradeId
        /\ trades[i].status = "FAILED"
        /\ trades[i].error_message = "executeTransaction failed"
        /\ trades[i].user_id = tcall[p].userId
        /\ trades[i].blockchain = tcall[p].blockchain
        /\ trades[i].trade_type = tcall[p].tradeType

HandleTradeCommandEnded(p) == tcall[p].op = "handleTradeCommand" /\ tcall[p].pc = "done"

\* p's command asked for AUTO and getTradingSignal answered with direction d
SignalResolvedTo(p, d) ==
    /\ tcall[p].op = "handleTradeCommand"
    /\ tcall[p].requested = "AUTO"
    /\ tcall[p].pc \notin {"parse", "signal"}
    /\ acall[p].pc = "done"
    /\ acall[p].ret = "value"
    /\ acall[p].result["signal"] = Str(d)

\* C12: an AUTO trade whose signal resolves to HOLD never calls the chain
\* adapter's executeTransaction, creates no trade row, and returns a declined
\* outcome with an explanatory message.
C12_HoldDeclines ==
    \A p \in Procs :
        SignalResolvedTo(p, "HOLD") =>
            /\ HandleTradeCommandEnded(p)
            /\ tcall[p].ret = "declined"
            /\ tcall[p].reply = "AI suggests to HOLD. No trade executed."
            /\ tcall[p].chainCalls = 0
            /\ tcall[p].inserted = 0
            /\ tcall[p].txHash = NULL
            /\ Len(trades) = tcall[p].tradesBefore

C12_Witness ==
    \E p \in Procs :
        /\ SignalResolvedTo(p, "HOLD")
        /\ tcall[p].signalCalls = 1
        /\ tcall[p].ret = "declined"
        /\ tcall[p].walletAddress # NULL

\* the rows that p's command in progress (or just ended) has added
NewRows(p) == (tcall[p].tradesBefore + 1)..Len(trades)

\* C13: an AUTO trade whose signal resolves to BUY (or SELL) has, once the
\* call has returned, a trade row with that direction, marked as chosen by the
\* AI, whose status is COMPLETED or FAILED and not PENDING.
C13_AutoTradeRecorded ==
    \A p \in Procs : \A d \in {"BUY", "SELL"} :
        (SignalResolvedTo(p, d) /\ HandleTradeCommandEnded(p)) =>
            \E i \in NewRows(p) :
                /\ trades[i].trade_type = d
                /\ trades[i].status \in {"COMPLETED", "FAILED"}
                /\ tcall[p].note = "(Action decided by AI)"

\* C14: a direction the user gave (BUY or SELL) passes through unchanged: the
\* direction simulated and recorded is the requested one, the reply carries no
\* AI note, and getTradingSignal is not called.
C14_ExplicitPassesThrough ==
    \A p \in Procs :
        (tcall[p].op = "handleTradeCommand" /\ tcall[p].requested \in {"BUY", "SELL"}) =>
            /\ tcall[p].requested = toUpperCase(tcall[p].message[3])
            /\ tcall[p].tradeType = tcall[p].requested
            /\ tcall[p].signalCalls = 0
            /\ tcall[p].note = ""
            /\ tcall[p].ret # "declined"
            /\ \A i \in NewRows(p) : trades[i].trade_type = tcall[p].requested

C14_Witness ==
    \E p \in Procs :
        /\ engine = "guide"
        /\ HandleTradeCommandEnded(p)
        /\ tcall[p].requested = "SELL"
        /\ tcall[p].ret = "success"
        /\ \E i \in NewRows(p) : trades[i].trade_type = "SELL"

\* the message names its direction with one of the three tokens
HasDirectionToken(m) == Len(m) >= 3 /\ toUpperCase(m[3]) \in {"BUY", "SELL", "AUTO"}

\* the message gives no amount, or one that is a positive number
AmountAcceptable(m) ==
    Len(m) < 4 \/ (~parseFloat(m[4]).nan /\ parseFloat(m[4]).value > 0)

\* p's command was turned down by the parser and nothing else happened
RejectedWithoutEffect(p) ==
    /\ HandleTradeCommandEnded(p)
    /\ tcall[p].ret = "failure"
    /\ tcall[p].requested = NULL
    /\ tcall[p].signalCalls = 0
    /\ tcall[p].chainCalls = 0
    /\ NewRows(p) = {}

\* C15: a command whose direction is missing or is none of BUY, SELL, AUTO is
\* rejected with no signal call, no trade row and no chain call; a command
\* whose direction is one of the three is accepted by the parser.
C15_DirectionTokenDecides ==
    \A p \in Procs :
        (tcall[p].op = "handleTradeCommand" /\ tcall[p].pc # "parse") =>
            /\ ~HasDirectionToken(tcall[p].message) => RejectedWithoutEffect(p)
            /\ (HasDirectionToken(tcall[p].message) /\ AmountAcceptable(tcall[p].message))
                  => tcall[p].requested = toUpperCase(tcall[p].message[3])

\* the message gives an amount that is no positive number
AmountRefused(m) == Len(m) >= 4 /\ (parseFloat(m[4]).nan \/ parseFloat(m[4]).value <= 0)

\* the message ends after a direction token d
DirectionWithoutAmount(m, d) == Len(m) = 3 /\ toUpperCase(m[3]) = d

\* p's command was accepted with direction d and the default amount
AcceptedWithDefault(p, d) ==
    tcall[p].requested = d /\ tcall[p].amount = DefaultAmount

SubFailed(s) == acall[s].pc = "done" /\ acall[s].ret = "error"
SubSucceeded(s) == acall[s].pc = "done" /\ acall[s].ret = "value"

\* the getComprehensiveAnalysis call has settled
CompEnded == comp.pc = "done"

\* the slot of the combined result that a settled advisory resolution gives
SlotOf(s) == IF SubFailed(s) THEN NullSlot ELSE ValueSlot(acall[s].result)

\* C17: when the prediction or the signal resolution fails and the sentiment
\* resolution succeeds, the call succeeds with sentiment filled in, the failed
\* slot null and the other slot as its resolution left it.
C17_AdvisoryFailureTolerated ==
    (/\ CompEnded
     /\ SubSucceeded("sentiment")
     /\ SubFailed("prediction") \/ SubFailed("signal")
     /\ \A s \in Ops : acall[s].pc = "done") =>
        /\ comp.ret = "value"
        /\ comp.sentiment = ValueSlot(acall["sentiment"].result)
        /\ comp.prediction = SlotOf("prediction")
        /\ comp.signal = SlotOf("signal")

C17_Witness ==
    /\ CompEnded
    /\ SubSucceeded("sentiment")
    /\ SubFailed("prediction")
    /\ SubSucceeded("signal")
    /\ comp.ret = "value"
    /\ comp.prediction = NullSlot
    /\ comp.signal.kind = "value"
    /\ comp.recommendation = Str("BUY")

\* the call gave its caller no result
NoResult ==
    /\ comp.ret = "error"
    /\ comp.sentiment = UndefinedSlot
    /\ comp.prediction = UndefinedSlot
    /\ comp.signal = UndefinedSlot
    /\ comp.recommendation = Undefined

\* C18: when the sentiment resolution fails the call fails as a whole with the
\* sentiment error and gives no result, whatever became of prediction and
\* signal.
C18_SentimentRequired ==
    (CompEnded /\ SubFailed("sentiment")) =>
        /\ NoResult
        /\ comp.error = acall["sentiment"].error

C18_Witness ==
    /\ CompEnded
    /\ SubFailed("sentiment")
    /\ SubSucceeded("prediction")
    /\ SubSucceeded("signal")
    /\ NoResult

\* C19: the recommendation of a successful call is the signal's direction
\* when the signal slot is non-null, and HOLD when the signal slot is null or
\* left out.
C19_RecommendationFollowsSignal ==
    (CompEnded /\ comp.ret = "value") =>
        /\ comp.signal.kind = "value" => comp.recommendation = comp.signal.f["signal"]
        /\ comp.signal.kind # "value" => comp.recommendation = Str("HOLD")

\* the step starts a call on the version that runs three resolutions
FanOutStarts == comp.pc # "join" /\ comp'.pc = "join"

\* the step settles the call
FanOutSettles == comp.pc = "join" /\ comp'.pc = "done"

SameKey(a, b) ==
    /\ a.op = b.op
    /\ a.tokenSymbol = b.tokenSymbol
    /\ a.timeframe = b.timeframe

\* a and b are resolutions of one key that consulted the store, were not
\* served from it, and read the table at the same length: neither read could
\* see a record of the other
Raced(a, b) ==
    /\ SameKey(a, b)
    /\ a.lookedUp /\ b.lookedUp
    /\ ~a.fromCache /\ ~b.fromCache
    /\ a.ret # "error" \/ a.providerCalls > 0
    /\ b.ret # "error" \/ b.providerCalls > 0
    /\ a.seen = b.seen

\* the resolution came back from the provider and its write went through
ComputedAndStored(a) == a.pc = "done" /\ a.ret = "value" /\ ~a.fromCache /\ ~a.storeFailed

\* the records of a's key written after a's read
RowsSince(a) ==
    {k \in (a.seen + 1)..Len(store[TableOf(a.op)]) :
        /\ store[TableOf(a.op)][k].token_symbol = a.tokenSymbol
        /\ store[TableOf(a.op)][k].timeframe = a.timeframe}

\* the resolutions a unit of work has in hand: the current and the last one
CallsOf(p) == {acall[p], prev[p]}

\* C21: of two resolutions of one key running side by side, neither finding
\* a fresh record, each calls the provider, and each that gets its result
\* and whose write goes through appends a record of its own, so that the key
\* then has two more records; a read that finds records of a key is given
\* one of greatest created_at.
C21_NoSingleFlight ==
    /\ \A p \in Procs : \A q \in Procs \ {p} :
          \A a \in CallsOf(p) : \A b \in CallsOf(q) :
              Raced(a, b) =>
                  /\ a.providerCalls = 1
                  /\ b.providerCalls = 1
                  /\ (ComputedAndStored(a) /\ ComputedAndStored(b)) =>
                        /\ a.appended = 1
                        /\ b.appended = 1
                        /\ Cardinality(RowsSince(a)) >= 2
    /\ \A p \in Procs :
          (acall[p].lookedUp /\ acall[p].found # 0) => acall[p].found \in KeyLatest(acall[p])

\* two resolutions side by side have each written a record, at different
\* instants, and a later read of the key is served the later one
C21_Witness ==
    \E p \in Procs : \E q \in Procs \ {p} :
        /\ Raced(prev[p], acall[q])
        /\ ComputedAndStored(prev[p])
        /\ ComputedAndStored(acall[q])
        /\ prev[p].seen = 0
        /\ AiEnded(p)
        /\ acall[p].fromCache
        /\ SameKey(acall[p], acall[q])
        /\ Len(store.sentiment_analysis) = 2
        /\ store.sentiment_analysis[1].created_at # store.sentiment_analysis[2].created_at
        /\ \A k \in 1..2 : store.sentiment_analysis[k].created_at
                               <= store.sentiment_analysis[acall[p].found].created_at

\* the resolution did not use the store, asked the provider, and what it
\* returned is a recomputed result that it appended
Refreshed(c) ==
    /\ ~c.lookedUp
    /\ c.pc # "lookup"
    /\ ~c.fromCache
    /\ Configured(impl, env) => c.providerCalls = 1
    /\ c.ret = "value" =>
          /\ c.op = "sentiment" => c.result["cached"] = Bool(FALSE)
          /\ ~c.storeFailed => c.appended = 1

\* the resolution went to the store first, as one without forceRefresh does
ConsultedStore(c) ==
    c.pc = "lookup" \/ c.lookedUp \/ (c.ret = "error" /\ c.error = "store read failed")

NeedsProvider(c) ==
    /\ c.pc \notin {"idle", "lookup"}
    /\ ~c.fromCache
    /\ ~(c.ret = "error" /\ c.error = "store read failed")

\* C23: a resolution that needs the provider while the provider endpoint or
\* the provider credential is missing fails at once with a configuration
\* error, and the provider is not contacted, neither then nor in a retry.
C23_ConfigurationErrorIsFatal ==
    \A p \in Procs :
        (NeedsProvider(acall[p]) /\ (~env.token \/ ~env.endpoints)) =>
            /\ AiEnded(p)
            /\ acall[p].ret = "error"
            /\ acall[p].error = "not configured"
            /\ acall[p].providerCalls = 0

(***************************************************************************)
(* Properties of the trade records                                         *)
(***************************************************************************)
\* the trade operation of p was an attempt at a trade: an executeTrade call,
\* or a /trade command that got past the parser and into simulateTrade
TradeAttemptEnded(p) ==
    /\ tcall[p].pc = "done"
    /\ \/ tcall[p].op = "executeTrade"
       \/ tcall[p].op = "handleTradeCommand" /\ tcall[p].requested # NULL

\* the rows the operation has put into the trades table: the PENDING row of
\* executeTrade, the FAILED row of its catch, the row of simulateTrade
RowsLeftBy(c) ==
    (IF c.tradeId # 0 THEN 1 ELSE 0) + (IF c.failedInsert = "ok" THEN 1 ELSE 0) + c.inserted

\* C24: each trade attempt, whether it succeeds or fails, leaves exactly one
\* trade record in the store.
C24_OneRecordPerAttempt ==
    \A p \in Procs : TradeAttemptEnded(p) => RowsLeftBy(tcall[p]) = 1

(***************************************************************************)
(* Properties of the analysis records                                      *)
(***************************************************************************)
AnalysisTables == {"sentiment_analysis", "predictions", "trade_signals"}

\* the step keeps every analysis record there is as it is
RecordsKept ==
    \A t \in AnalysisTables :
        /\ Len(store'[t]) >= Len(store[t])
        /\ \A k \in 1..Len(store[t]) : store'[t][k] = store[t][k]

\* the number of analysis records
RecordCount(tables) ==
    Len(tables.sentiment_analysis) + Len(tables.predictions) + Len(tables.trade_signals)

\* the step is the successful write of one resolution's computed result
WriteOf(p) ==
    /\ acall[p].pc = "store"
    /\ acall'[p].pc = "done"
    /\ acall'[p].ret = "value"
    /\ acall'[p].appended = acall[p].appended + 1

\* C25: analysis records are append-only: no step changes or removes a
\* record; a record is added only by the successful write of a resolution
\* that computed its result, one record per such write, and a resolution
\* served from the store adds none.
C25_AppendOnly ==
    [][/\ RecordsKept
       /\ RecordCount(store') <= RecordCount(store) + 1
       /\ RecordCount(store') = RecordCount(store) + 1 =>
             \E p \in Procs : WriteOf(p) /\ ~acall[p].fromCache
       /\ \A p \in Procs :
             /\ WriteOf(p) => RecordCount(store') = RecordCount(store) + 1
             /\ acall'[p].fromCache => acall'[p].appended = 0
             /\ acall'[p].appended <= 1]_vars

\* a record written by one resolution, still as it was, has served the next
C25_Witness ==
    \E p \in Procs :
        /\ prev[p].pc = "done"
        /\ prev[p].appended = 1
        /\ AiEnded(p)
        /\ acall[p].fromCache
        /\ acall[p].appended = 0
        /\ acall[p].found = 2
        /\ Len(store[TableOf(acall[p].op)]) = 2

\* C26: a resolution served from the store is served a record of its own
\* symbol and timeframe, and among the records of that key one of greatest
\* created_at: an older record of the key, or a record of another timeframe
\* or symbol, is never served, fresh or not.
C26_LatestOfKeyDecides ==
    \A p \in Procs :
        LET c == acall[p]
            table == store[TableOf(c.op)]
        IN  c.fromCache =>
                /\ c.found \in 1..c.seen
                /\ table[c.found].token_symbol = c.tokenSymbol
                /\ table[c.found].timeframe = c.timeframe
                /\ \A j \in KeyRows(c) : table[j].created_at <= table[c.found].created_at
                /\ PayloadOfResult(c.op, c.result)
                      = PayloadOfRecord(c.op, table[c.found], c.includeAnalysis)

\* two records of the key are both within the time to live, and the later
\* one is served
C26_Witness ==
    \E p \in Procs :
        LET c == acall[p]
            table == store[TableOf(c.op)]
        IN  /\ AiEnded(p)
            /\ c.fromCache
            /\ c.found = 2
            /\ 1 \in KeyRows(c)
            /\ table[1].created_at < table[2].created_at
            /\ CheckedAt(c) - table[1].created_at < Ttl(c.op)

(***************************************************************************)
(* Properties of the chain adapters                                        *)
(***************************************************************************)
\* the operation of p has selected its adapter
AdapterSelected(p) == tcall[p].adapter # NULL

\* C27: the adapter is a function of the chain tag alone: BSC gives the BSC
\* adapter and NEAR the placeholder adapter, every executeTrade and
\* getWalletBalances call that reaches the selection gets one, and two calls
\* with the same tag get the same one.
C27_AdapterByChainTag ==
    /\ \A p \in Procs :
          AdapterSelected(p) =>
              /\ tcall[p].blockchain = "BSC" => tcall[p].adapter = "bscAdapter"
              /\ tcall[p].blockchain = "NEAR" => tcall[p].adapter = "nearAdapter"
    /\ \A p \in Procs :
          (tcall[p].op = "executeTrade" /\ tcall[p].chainCalls > 0) => AdapterSelected(p)
    /\ \A p \in Procs :
          (tcall[p].op = "getWalletBalances" /\ tcall[p].pc # "idle") => AdapterSelected(p)
    /\ \A p \in Procs : \A q \in Procs :
          (AdapterSelected(p) /\ AdapterSelected(q)
              /\ tcall[p].blockchain = tcall[q].blockchain)
            => tcall[p].adapter = tcall[q].adapter
    /\ \A p \in Procs :
          (tcall[p].op = "executeTrade" /\ tcall[p].chainCalls > 0
              /\ tcall[p].blockchain = "NEAR")
            => tcall[p].txHash = NearPlaceholderHash

\* an executeTrade and a getWalletBalances call on NEAR have both been served
\* by the placeholder adapter
C27_Witness ==
    \E p \in Procs : \E q \in Procs :
        /\ tcall[p].op = "executeTrade"
        /\ tcall[p].blockchain = "NEAR"
        /\ tcall[p].chainCalls = 1
        /\ tcall[p].adapter = "nearAdapter"
        /\ tcall[q].op = "getWalletBalances"
        /\ tcall[q].blockchain = "NEAR"
        /\ tcall[q].pc = "done"
        /\ tcall[q].adapter = "nearAdapter"
        /\ Len(tcall[q].balances) = 2
        /\ tcall[q].balances[1].symbol = "NEAR"
        /\ tcall[q].balances[2].symbol = "TOKEN"

(***************************************************************************)
(* Properties of the analysis text of a signal                             *)
(***************************************************************************)
\* getTradingSignal of p has returned a value
SignalReturned(p) ==
    /\ AiEnded(p)
    /\ acall[p].op = "signal"
    /\ acall[p].ret = "value"

\* C28: getTradingSignal returns an analysis text only if includeAnalysis is
\* true, whether the result comes from the store or from the provider.
C28_AnalysisOnlyOnRequest ==
    \A p \in Callers :
        (SignalReturned(p) /\ ~acall[p].includeAnalysis)
            => acall[p].result["analysis"].t \in {"null", "undefined"}

(***************************************************************************)
(* Properties of the request handlers                                      *)
(***************************************************************************)
HandlerEnded == hcall.pc = "done"
MethodAllowed == hcall.method \in {"GET", "POST"}
ServiceNotCalled == aiCalls = hcall.aiCallsBefore

\* the service call that the handler awaited has thrown / has returned
ServiceThrew ==
    IF hcall.route = "analyze" THEN comp.ret = "error" ELSE acall[ApiCaller].ret = "error"
ServicePayload ==
    IF hcall.route = "analyze"
    THEN [NoPayload EXCEPT !.of = "analyze", !.sentiment = comp.sentiment,
                           !.prediction = comp.prediction, !.signal = comp.signal,
                           !.recommendation = comp.recommendation]
    ELSE [NoPayload EXCEPT !.of = hcall.route, !.result = acall[ApiCaller].result]

\* the answers to a request that carries a symbol
AnswersOfService ==
    (HandlerEnded /\ MethodAllowed /\ hcall.token # NULL) =>
        /\ ~ServiceNotCalled
        /\ ServiceThrew =>
              /\ hcall.status = 500
              /\ hcall.error # ""
              /\ hcall.bodyToken = hcall.token
        /\ ~ServiceThrew =>
              /\ hcall.status = 200
              /\ hcall.payload = ServicePayload

\* C29 as stated: every request without a symbol is answered with 400 and
\* the service is not called; a failure of the service is answered with 500,
\* a message and the symbol as sent; a success with 200 and the payload.
C29_Original ==
    /\ (HandlerEnded /\ hcall.token = NULL) =>
          (hcall.status = 400 /\ ServiceNotCalled)
    /\ AnswersOfService

\* C29: a GET or POST request without a symbol is answered with 400, a
\* request of another method with 405 whether it carries a symbol or not, and
\* in both cases the service is not called; a failure of the service is
\* answered with 500, a message and the symbol as sent; a success with 200
\* and the payload.
C29_HandlerAnswers ==
    /\ (HandlerEnded /\ MethodAllowed /\ hcall.token = NULL) =>
          (hcall.status = 400 /\ ServiceNotCalled)
    /\ (HandlerEnded /\ ~MethodAllowed) =>
          (hcall.status = 405 /\ ServiceNotCalled)
    /\ AnswersOfService

\* the service has failed for want of an endpoint and the handler has
\* answered 500 with the symbol in the case it was sent in
C29_Witness ==
    /\ HandlerEnded
    /\ hcall.status = 500
    /\ hcall.bodyToken = "btc"
    /\ hcall.error # ""
    /\ ServiceThrew
    /\ ~env.endpoints

(***************************************************************************)
(* Properties of the symbol's letter case                                  *)
(***************************************************************************)
UpperCase(sym) == sym = toUpperCase(sym)

\* b asks for what a asked for, but for the letter case of the symbol
SameKeyButCase(a, b) ==
    /\ a.op = b.op
    /\ a.timeframe = b.timeframe
    /\ toUpperCase(a.tokenSymbol) = toUpperCase(b.tokenSymbol)

\* C30: a resolution looks its symbol up in upper case and every analysis
\* record carries the symbol in upper case, so that a resolution that reads
\* the store after one of the same key but for letter case has stored its
\* result finds a record of that key.
C30_SymbolsNormalized ==
    /\ \A c \in Callers : acall[c].op # "none" => UpperCase(acall[c].tokenSymbol)
    /\ \A t \in AnalysisTables :
          \A k \in 1..Len(store[t]) : UpperCase(store[t][k].token_symbol)
    /\ \A p \in Procs :
          (/\ ComputedAndStored(prev[p])
           /\ SameKeyButCase(prev[p], acall[p])
           /\ acall[p].lookedUp)
            => acall[p].found # 0

(***************************************************************************)
(* Properties of the NEAR adapter                                          *)
(***************************************************************************)
OnNear(p) == tcall[p].blockchain = "NEAR"

\* executeTrade of p has ended for want of a store write
StoreWriteFailed(p) ==
    /\ tcall[p].ret = "thrown"
    /\ tcall[p].error \in {"recordTrade failed", "updateTradeStatus failed"}

\* executeTrade of p has returned the placeholder and left its row COMPLETED
CompletedWithPlaceholder(p) ==
    /\ tcall[p].ret = "success"
    /\ tcall[p].retTxHash = NearPlaceholderHash
    /\ tcall[p].retTradeId \in 1..Len(trades)
    /\ trades[tcall[p].retTradeId].status = "COMPLETED"
    /\ trades[tcall[p].retTradeId].tx_hash = NearPlaceholderHash

\* C31: on NEAR, executeTransaction returns the placeholder reference and
\* does not throw, getBalance returns balance '0' with 24 decimals and does
\* not throw, and an executeTrade ends COMPLETED with the placeholder unless
\* one of its store writes failed.
C31_NearAdapterIsStub ==
    \A p \in Procs :
        OnNear(p) =>
            /\ (tcall[p].op = "executeTrade" /\ tcall[p].chainCalls > 0) =>
                  /\ tcall[p].txHash = NearPlaceholderHash
                  /\ tcall[p].error # "executeTransaction failed"
            /\ (tcall[p].op = "executeTrade" /\ tcall[p].pc = "done") =>
                  (CompletedWithPlaceholder(p) \/ StoreWriteFailed(p))
            /\ tcall[p].op = "getWalletBalances" =>
                  /\ tcall[p].error # "getBalance failed"
                  /\ \A k \in 1..Len(tcall[p].got) :
                        /\ tcall[p].got[k].balance = "0"
                        /\ tcall[p].got[k].decimals = 24

\* a NEAR trade has ended COMPLETED with the placeholder while a NEAR
\* balance query has returned the native balance and two tokens
C31_Witness ==
    \E p \in Procs : \E q \in Procs :
        /\ OnNear(p)
        /\ tcall[p].op = "executeTrade"
        /\ tcall[p].pc = "done"
        /\ CompletedWithPlaceholder(p)
        /\ OnNear(q)
        /\ tcall[q].op = "getWalletBalances"
        /\ tcall[q].pc = "done"
        /\ Len(tcall[q].got) = 3

(***************************************************************************)
(* Properties of getWalletBalances                                         *)
(***************************************************************************)
BalancesEnded(p) == tcall[p].op = "getWalletBalances" /\ tcall[p].pc = "done"

\* the place of a contract in the request
RequestOrder(a) == CHOOSE k \in 1..Len(TokenAddresses) : TokenAddresses[k] = a

\* the contracts of the request whose lookup did not fail
TokensFound(c) == {TokenAddresses[k] : k \in 1..c.tokens} \ c.lost

\* C35: getWalletBalances throws exactly when the native lookup failed; a
\* failed token lookup only leaves that token out. The array returned starts
\* with the native balance and goes on with the tokens whose lookup
\* succeeded, in request order, so that it has between 1 and 1 + tokens
\* entries.
C35_NativeFirstTokensTolerated ==
    \A p \in Procs :
        BalancesEnded(p) =>
            LET c == tcall[p]
                b == c.balances
            IN  /\ c.ret \in {"success", "thrown"}
                /\ c.ret = "thrown" <=> (c.asked = 0 /\ b = <<>>)
                /\ c.lost # {} => c.ret = "success"
                /\ c.ret = "success" =>
                      /\ c.asked = c.tokens
                      /\ Len(b) >= 1
                      /\ Len(b) <= 1 + c.tokens
                      /\ b[1].is_native
                      /\ Len(b) = 1 + Cardinality(TokensFound(c))
                      /\ \A k \in 2..Len(b) :
                            /\ ~b[k].is_native
                            /\ b[k].token_address \in TokensFound(c)
                      /\ \A j \in 2..Len(b) : \A k \in 2..Len(b) :
                            j < k => RequestOrder(b[j].token_address)
                                        < RequestOrder(b[k].token_address)

\* of two tokens asked for, the first lookup failed and the second is there
C35_Witness ==
    \E p \in Procs :
        /\ BalancesEnded(p)
        /\ tcall[p].tokens = 2
        /\ tcall[p].lost = {TokenAddresses[1]}
        /\ tcall[p].ret = "success"
        /\ Len(tcall[p].balances) = 2
        /\ tcall[p].balances[2].token_address = TokenAddresses[2]

\* all tokens asked for are there, in the order of the request
C35_WitnessAll ==
    \E p \in Procs :
        /\ BalancesEnded(p)
        /\ tcall[p].tokens = 2
        /\ Len(tcall[p].balances) = 3

(***************************************************************************)
(* Properties of a failed store read                                       *)
(***************************************************************************)
\* the resolution had to read the store and ended without the read's answer
ReadFailed(c) ==
    /\ c.pc = "done"
    /\ UsesCache(impl, c.op)
    /\ ~SkipsStore(c.op, c.forceRefresh)
    /\ ~c.lookedUp

\* C32: a resolution whose store read fails throws; it has not called the
\* provider and has appended no record.
C32_ReadFailureIsFatal ==
    \A p \in Procs :
        ReadFailed(acall[p]) =>
            /\ acall[p].ret = "error"
            /\ acall[p].error # ""
            /\ acall[p].providerCalls = 0
            /\ acall[p].upstream = "none"
            /\ acall[p].appended = 0

\* the resolution before this one stored its result; this one's read failed
\* and left the table as it was
C32_Witness ==
    \E p \in Procs :
        /\ ReadFailed(acall[p])
        /\ acall[p].ret = "error"
        /\ ComputedAndStored(prev[p])
        /\ SameKey(prev[p], acall[p])
        /\ Len(store[TableOf(acall[p].op)]) = prev[p].seen + 1

(***************************************************************************)
(* Properties of what handleTradeCommand returns                           *)
(***************************************************************************)
\* C33: handleTradeCommand does not throw. It returns success = true exactly
\* when simulateTrade ended COMPLETED, and then the transaction reference;
\* otherwise it returns success = false and a message.
C33_AlwaysReturnsResult ==
    \A p \in Procs :
        HandleTradeCommandEnded(p) =>
            /\ tcall[p].ret \in {"success", "failure", "declined"}
            /\ tcall[p].ret = "success" <=> tcall[p].simStatus = "COMPLETED"
            /\ tcall[p].ret = "success" => tcall[p].retTxHash \in SimHashes
            /\ tcall[p].ret # "success" =>
                  /\ tcall[p].reply # ""
                  /\ tcall[p].retTxHash = NULL

\* the AUTO direction was asked for, getTradingSignal threw, and the catch
\* of handleTradeCommand returned the failure
C33_Witness ==
    \E p \in Procs :
        /\ HandleTradeCommandEnded(p)
        /\ tcall[p].requested = "AUTO"
        /\ acall[p].ret = "error"
        /\ tcall[p].ret = "failure"
        /\ tcall[p].reply = "Trade command error"

(***************************************************************************)
(* Properties of simulateTrade                                             *)
(***************************************************************************)
\* the step is one of p's handleTradeCommand
StepOfCommand(p) == tcall'[p].op = "handleTradeCommand" /\ tcall'[p] # tcall[p]

\* the step is the end of p's simulateTrade after its delays
SimulateTradeEnds(p) ==
    /\ tcall[p].op = "handleTradeCommand"
    /\ tcall[p].pc = "simulate"
    /\ tcall'[p].pc = "done"

\* the step appends at most one record, a COMPLETED one that was never
\* PENDING, and changes no other
AtMostOneCompletedRow ==
    /\ Len(trades') \in {Len(trades), Len(trades) + 1}
    /\ \A k \in 1..Len(trades) : trades'[k] = trades[k]
    /\ Len(trades') = Len(trades) + 1 =>
          trades'[Len(trades')].status_log = <<"COMPLETED">>

\* C34: simulateTrade calls no chain adapter and writes no PENDING record;
\* it appends at most one record, a COMPLETED one, and returns status
\* COMPLETED with the reference it made up whether that write succeeded or
\* not.
C34_SimulatedExecution ==
    [][\A p \in Procs :
          StepOfCommand(p) =>
              /\ tcall'[p].chainCalls = 0
              /\ tcall'[p].adapter = NULL
              /\ IF SimulateTradeEnds(p)
                 THEN /\ AtMostOneCompletedRow
                      /\ tcall'[p].simStatus = "COMPLETED"
                      /\ tcall'[p].ret = "success"
                      /\ tcall'[p].retTxHash \in SimHashes
                 ELSE trades' = trades]_vars

\* the insert of simulateTrade failed and the command succeeded all the same
C34_Witness ==
    \E p \in Procs :
        /\ HandleTradeCommandEnded(p)
        /\ tcall[p].inserted = 0
        /\ tcall[p].simStatus = "COMPLETED"
        /\ tcall[p].ret = "success"
        /\ tcall[p].retTxHash \in SimHashes

(***************************************************************************)
(* Properties of the telegram webhook                                      *)
(***************************************************************************)
SecretConfigured == web.secret \notin {NULL, ""}
Rejected401403405 == web.status \in {401, 403, 405}

\* C36: an update is handed to the bot only if the secret-token header
\* equals the configured secret; without a configured secret every request
\* is rejected and nothing is handed to the bot.
C36_WebhookGating ==
    /\ (web.pc = "dispatch" \/ web.handled) =>
          (SecretConfigured /\ web.header = web.secret)
    /\ ~SecretConfigured =>
          /\ web.dispatches = 0
          /\ web.pc # "dispatch"
          /\ web.pc = "done" => Rejected401403405
    /\ (web.pc = "done" /\ web.header # web.secret) =>
          (~web.handled /\ Rejected401403405)

\* one update went to the bot, and the request after it, which carries
\* another token, was turned away
C36_Witness ==
    /\ SecretConfigured
    /\ web.dispatches = 1
    /\ web.requests = 2
    /\ web.pc = "done"
    /\ web.header = "wrong"
    /\ ~web.handled
    /\ Rejected401403405

(***************************************************************************)
(* Properties of the lazy initialisation                                   *)
(***************************************************************************)
\* the step is the start of a call of p / the end of p's connect
GradioStarts(p) == gradio.call[p].pc \in {"idle", "done"} /\ gradio'.call[p].pc \notin {"idle", "done"}
ConnectEnds(p) == gradio.call[p].pc = "connect" /\ gradio'.call[p].pc # "connect"

\* C37: a call that starts with the flag set does not connect; a call that
\* starts with the flag unset connects, also while another call's connect is
\* under way; a connect that succeeds sets the flag, one that fails leaves
\* the flag as it is, and nothing unsets the flag.
C37_LazyInitialisation ==
    [][\A p \in Procs :
          /\ GradioStarts(p) =>
                IF gradio.clientsInitialized
                THEN /\ gradio'.connects = gradio.connects
                     /\ gradio'.call[p].pc = "predict"
                ELSE /\ gradio'.connects = gradio.connects + 1
                     /\ gradio'.call[p].pc = "connect"
          /\ ConnectEnds(p) =>
                IF gradio'.call[p].ret = "error"
                THEN /\ gradio'.clientsInitialized = gradio.clientsInitialized
                     /\ gradio'.cryptoBertClient = gradio.cryptoBertClient
                ELSE /\ gradio'.clientsInitialized
                     /\ gradio'.cryptoBertClient = gradio.call[p].connectId
          /\ gradio.clientsInitialized => gradio'.clientsInitialized]_vars

\* two calls started before a connect had finished and each connected; both
\* connects succeeded and a third call went on without connecting
C37_Witness ==
    \E p \in Procs : \E q \in Procs \ {p} :
        /\ gradio.connects = 2
        /\ gradio.calls = 3
        /\ gradio.clientsInitialized
        /\ gradio.call[p].connectId = 0
        /\ gradio.call[p].pc = "predict"
        /\ gradio.call[q].connected
        /\ gradio.call[q].connectId # gradio.cryptoBertClient

\* a connect failed with the flag unset and the call after it connected anew
C37_WitnessRetry ==
    \E p \in Procs :
        /\ gradio.connects = 2
        /\ gradio.calls = 2
        /\ ~gradio.clientsInitialized
        /\ gradio.call[p].pc = "connect"
        /\ gradio.call[p].connectId = 2
        /\ \A q \in Procs \ {p} : gradio.call[q].pc = "idle"

====
